---- MODULE Spec2Model ----
(***************************************************************************)
(* Listing draft normalization engine of the Nike catalog pipeline         *)
(* (src/src/pipelines/nike_listings.py, src/src/brands/nike_parser.py).    *)
(*                                                                         *)
(* Python strings are modelled as sequences of one-character strings, so   *)
(* that upper/lower-casing, stripping, splitting, substring tests and the  *)
(* regular expressions of the source are computed character by character.  *)
(* pandas frames are sequences of records in row order.                    *)
(*                                                                         *)
(* prepare_listings_draft is split where it calls out of the process: the  *)
(* selection and grouping, the first title pass after the first platform   *)
(* snapshot, the second pass after the second snapshot, the variant table  *)
(* after the color code map file is read, and the return.  The             *)
(* abbreviation, title category and product type override files are        *)
(* absent, so the built-in tables apply; prices are whole dollars, kept    *)
(* in cents; a frame left without rows makes the call raise, as the Title  *)
(* assignment on an empty frame does.                                      *)
(***************************************************************************)
EXTENDS Integers, Sequences, FiniteSets, TLC

(***************************************************************************)
(* Python str primitives                                                   *)
(***************************************************************************)

\* The characters that occur in the model, in code-point order.
Alphabet == <<" ","&","'",",","-",".","/","0","1","2","3","4","5","6","7","8","9","A","B","C","D","E","F","G","H","I","J","K","L","M","N","O","P","Q","R","S","T","U","V","W","X","Y","Z","a","b","c","d","e","f","g","h","i","j","k","l","m","n","o","p","q","r","s","t","u","v","w","x","y","z">>

AlphabetSet == {Alphabet[i] : i \in 1..Len(Alphabet)}

UpperLetters == <<"A","B","C","D","E","F","G","H","I","J","K","L","M","N","O","P","Q","R","S","T","U","V","W","X","Y","Z">>

LowerLetters == <<"a","b","c","d","e","f","g","h","i","j","k","l","m","n","o","p","q","r","s","t","u","v","w","x","y","z">>

Digits == {"0", "1", "2", "3", "4", "5", "6", "7", "8", "9"}

\* ord(c), up to an order-preserving renumbering
Ord == [c \in AlphabetSet |-> CHOOSE i \in 1..Len(Alphabet) : Alphabet[i] = c]

UpperChar == [c \in AlphabetSet |->
    IF \E i \in 1..26 : LowerLetters[i] = c
    THEN UpperLetters[CHOOSE i \in 1..26 : LowerLetters[i] = c] ELSE c]

LowerChar == [c \in AlphabetSet |->
    IF \E i \in 1..26 : UpperLetters[i] = c
    THEN LowerLetters[CHOOSE i \in 1..26 : UpperLetters[i] = c] ELSE c]

\* str.upper()
Upper(s) == [i \in 1..Len(s) |-> UpperChar[s[i]]]

\* str.lower()
Lower(s) == [i \in 1..Len(s) |-> LowerChar[s[i]]]

\* \s of the re module, restricted to the alphabet
IsSpace(c) == c = " "

\* \w of the re module, restricted to the alphabet
IsWord(c) == c \in Digits \/ UpperChar[c] # LowerChar[c]

RECURSIVE LStrip(_)
\* str.lstrip()
LStrip(s) == IF s # <<>> /\ IsSpace(Head(s)) THEN LStrip(Tail(s)) ELSE s

RECURSIVE RStrip(_)
\* str.rstrip()
RStrip(s) == IF s # <<>> /\ IsSpace(s[Len(s)]) THEN RStrip(SubSeq(s, 1, Len(s) - 1)) ELSE s

\* str.strip()
Strip(s) == RStrip(LStrip(s))

\* sub in s
Contains(s, sub) ==
    \E i \in 0..(Len(s) - Len(sub)) : SubSeq(s, i + 1, i + Len(sub)) = sub

\* s.startswith(p)
StartsWith(s, p) == Len(p) <= Len(s) /\ SubSeq(s, 1, Len(p)) = p

RECURSIVE Replace(_, _, _)
\* str.replace(old, new) for a non-empty old: leftmost, non-overlapping, one pass
Replace(s, old, new) ==
    IF s = <<>> THEN <<>>
    ELSE IF StartsWith(s, old)
         THEN new \o Replace(SubSeq(s, Len(old) + 1, Len(s)), old, new)
         ELSE <<Head(s)>> \o Replace(Tail(s), old, new)

RECURSIVE JoinWith(_, _)
\* sep.join(parts)
JoinWith(parts, sep) ==
    IF parts = <<>> THEN <<>>
    ELSE IF Len(parts) = 1 THEN parts[1]
    ELSE parts[1] \o sep \o JoinWith(Tail(parts), sep)

RECURSIVE SplitAcc(_, _, _)
\* re.split(r"[\s/]+", s): the pieces between maximal runs of separators,
\* empty leading and trailing pieces included
SplitAcc(s, cur, inSep) ==
    IF s = <<>> THEN <<cur>>
    ELSE IF IsSpace(Head(s)) \/ Head(s) = "/"
         THEN IF inSep THEN SplitAcc(Tail(s), cur, TRUE)
              ELSE <<cur>> \o SplitAcc(Tail(s), <<>>, TRUE)
         ELSE SplitAcc(Tail(s), Append(cur, Head(s)), FALSE)

ReSplitSpaceSlash(s) == SplitAcc(s, <<>>, FALSE)

RECURSIVE SplitWs(_, _)
\* str.split(): pieces between runs of whitespace, no empty pieces
SplitWs(s, cur) ==
    IF s = <<>> THEN (IF cur = <<>> THEN <<>> ELSE <<cur>>)
    ELSE IF IsSpace(Head(s))
         THEN (IF cur = <<>> THEN <<>> ELSE <<cur>>) \o SplitWs(Tail(s), <<>>)
         ELSE SplitWs(Tail(s), Append(cur, Head(s)))

RECURSIVE SelectNonEmpty(_)
\* [t for t in parts if t]
SelectNonEmpty(parts) ==
    IF parts = <<>> THEN <<>>
    ELSE IF Head(parts) = <<>> THEN SelectNonEmpty(Tail(parts))
    ELSE <<Head(parts)>> \o SelectNonEmpty(Tail(parts))

RECURSIVE StrLess(_, _)
\* a < b on Python str (lexicographic by code point)
StrLess(a, b) ==
    IF b = <<>> THEN FALSE
    ELSE IF a = <<>> THEN TRUE
    ELSE IF Head(a) = Head(b) THEN StrLess(Tail(a), Tail(b))
    ELSE Ord[Head(a)] < Ord[Head(b)]

\* dict lookup in a table kept as a sequence of <<key, value>> pairs in
\* insertion order (keys unique)
HasKey(table, k) == \E i \in 1..Len(table) : table[i][1] = k

Lookup(table, k) == table[CHOOSE i \in 1..Len(table) : table[i][1] = k][2]

AllDigits(s) == s # <<>> /\ \A i \in 1..Len(s) : s[i] \in Digits

(***************************************************************************)
(* Size normalization                                                      *)
(***************************************************************************)

\* _shoe_size_re = ^[MW]\s*(\d+(?:\.\d)?)$ with re.IGNORECASE: the part after
\* the gender letter and the whitespace
ShoeSizeTail(s) == LStrip(Tail(s))

IsShoeNumber(n) ==
    \/ AllDigits(n)
    \/ /\ Len(n) >= 3
       /\ n[Len(n) - 1] = "."
       /\ n[Len(n)] \in Digits
       /\ AllDigits(SubSeq(n, 1, Len(n) - 2))

ShoeSizeMatches(s) ==
    /\ s # <<>>
    /\ UpperChar[Head(s)] \in {"M", "W"}
    /\ IsShoeNumber(ShoeSizeTail(s))

\* the footwear test on the item type
IsFootwearType(item_type) ==
    LET t == Lower(item_type) IN Contains(t, <<"s","h","o","e">>) \/ Contains(t, <<"f","o","o","t","w","e","a","r">>)

\* the "mapping" dict of _normalize_size
SizeMapping == <<
    <<<<"X","X"," ","S","M","A","L","L">>, <<"2","X","S">>>>, <<<<"X","X","S">>, <<"2","X","S">>>>, <<<<"2","X","S">>, <<"2","X","S">>>>,
    <<<<"X"," ","S","M","A","L","L">>, <<"X","S">>>>, <<<<"E","X","T","R","A"," ","S","M","A","L","L">>, <<"X","S">>>>,
    <<<<"S","M","A","L","L">>, <<"S">>>>, <<<<"M","E","D","I","U","M">>, <<"M">>>>, <<<<"L","A","R","G","E">>, <<"L">>>>,
    <<<<"X"," ","L","A","R","G","E">>, <<"X","L">>>>, <<<<"E","X","T","R","A"," ","L","A","R","G","E">>, <<"X","L">>>>,
    <<<<"X","X"," ","L","A","R","G","E">>, <<"2","X","L">>>>, <<<<"X","X","X"," ","L","A","R","G","E">>, <<"3","X","L">>>>,
    <<<<"X","X","L">>, <<"2","X","L">>>>, <<<<"X","X","X","L">>, <<"3","X","L">>>>, <<<<"X","X","X","X","L">>, <<"4","X","L">>>>,
    <<<<"2","X">>, <<"2","X","L">>>>, <<<<"3","X">>, <<"3","X","L">>>>, <<<<"4","X">>, <<"4","X","L">>>> >>

\* the leading qualifiers dropped by _normalize_size
SizeQualifiers == {<<"W","O","M","E","N">>, <<"W","O","M","E","N","S">>, <<"W","O","M","E","N","'","S">>, <<"M","E","N","S">>, <<"M","E","N">>, <<"M","E","N","'","S">>, <<"B","O","Y","S">>,
                   <<"G","I","R","L","S">>, <<"Y","O","U","T","H">>, <<"K","I","D","S">>, <<"M">>, <<"W">>, <<"G">>, <<"B">>, <<"Y","T","H">>, <<"K">>}

\* the canonical form without the hyphen replacement
SizeCanonKeepHyphen(s) == Strip(Replace(Upper(s), <<" "," ">>, <<" ">>))

\* canon = s.upper().replace("-"," ").replace("  ", " ").strip()
SizeCanon(s) == Strip(Replace(Replace(Upper(s), <<"-">>, <<" ">>), <<" "," ">>, <<" ">>))

\* the qualifier-stripping tail of _normalize_size
SizeDropQualifier(canon) ==
    LET tokens == SelectNonEmpty(ReSplitSpaceSlash(canon))
        rest == IF tokens # <<>> /\ tokens[1] \in SizeQualifiers
                THEN Tail(tokens) ELSE tokens
    IN JoinWith(rest, <<" ">>)

\* the footwear branch of _normalize_size: taken for a footwear item type
\* when the shoe-size pattern matches
ShoeBranch(s, item_type) == IsFootwearType(item_type) /\ ShoeSizeMatches(s)

_normalize_size(size_val, item_type) ==
    LET s == Strip(size_val) IN
    IF s = <<>> THEN s
    ELSE IF ShoeBranch(s, item_type) THEN ShoeSizeTail(s)
    ELSE LET canon == SizeCanon(s) IN
         IF HasKey(SizeMapping, canon) THEN Lookup(SizeMapping, canon)
         ELSE SizeDropQualifier(canon)

(***************************************************************************)
(* Title expansion                                                         *)
(***************************************************************************)

_abbr_start == <<
    <<<<"G">>, <<"G","i","r","l","s">>>>, <<<<"B">>, <<"B","o","y","s">>>>, <<<<"N","K">>, <<"N","i","k","e">>>>, <<<<"U">>, <<"U","n","i","s","e","x">>>>,
    <<<<"W">>, <<"W","o","m","e","n","'","s">>>>, <<<<"M">>, <<"M","e","n","'","s">>>>, <<<<"A","B">>, <<"Y","o","u","t","h">>>>, <<<<"A","D">>, <<"K","i","d","s">>>>,
    <<<<"A","O">>, <<"N","a","o","m","i"," ","O","s","a","k","a">>>> >>

_abbr_any == <<
    <<<<"D","F">>, <<"D","r","i","-","F","I","T">>>>, <<<<"D","F","A","D","V">>, <<"D","r","i","-","F","I","T"," ","A","d","v","a","n","t","a","g","e">>>>, <<<<"A","D","V">>, <<"A","D","V">>>>,
    <<<<"S","S">>, <<"S","h","o","r","t"," ","S","l","e","e","v","e">>>>, <<<<"L","S">>, <<"L","o","n","g"," ","S","l","e","e","v","e">>>>, <<<<"S","L">>, <<"S","l","e","e","v","e","l","e","s","s">>>>,
    <<<<"P","R","T">>, <<"P","r","i","n","t">>>>, <<<<"V","C","T","R","Y">>, <<"V","i","c","t","o","r","y">>>>, <<<<"N","V","L","T","Y">>, <<"N","o","v","e","l","t","y">>>>,
    <<<<"N","X","T">>, <<"N","e","x","t">>>>, <<<<"H","E","R","I","T","G","E">>, <<"H","e","r","i","t","a","g","e">>>>, <<<<"A","D","V","T","G">>, <<"A","d","v","a","n","t","a","g","e">>>>,
    <<<<"P","Q">>, <<"P","Q">>>>, <<<<"P","L","T","D">>, <<"P","l","e","a","t","e","d">>>>, <<<<"F","L","N","C","Y">>, <<"F","l","o","u","n","c","y">>>>,
    <<<<"P","C","K","B","L">>, <<"P","i","c","k","l","e","b","a","l","l">>>>, <<<<"N","P">>, <<"N","i","k","e"," ","P","r","o">>>>, <<<<"T","G","T">>, <<"T","i","g","h","t">>>>,
    <<<<"H","T","H","R">>, <<"H","e","a","t","h","e","r">>>>, <<<<"A","B">>, <<"A","e","r","o","b","i","l","l">>>>, <<<<"E","S","S","N","T","L">>, <<"E","s","s","e","n","t","i","a","l">>>>,
    <<<<"S","W","S","H">>, <<"S","w","o","o","s","h">>>>, <<<<"I","N","D","Y">>, <<"I","n","d","y">>>>, <<<<"A","R","B","L">>, <<"A","e","r","o","b","i","l","l">>>>,
    <<<<"E","L","S","T","K","A">>, <<"E","l","a","s","t","i","k","a">>>>, <<<<"C","R","P">>, <<"C","r","o","p">>>>, <<<<"M","U","L","T","I">>, <<"M","u","l","t","i">>>>,
    <<<<"W","V","N">>, <<"W","o","v","e","n">>>>, <<<<"S">>, <<"S","w","o","o","s","h">>>>, <<<<"F","U","T">>, <<"F","u","t","u","r","a">>>>,
    <<<<"S","N","B","K">>, <<"S","n","a","p","b","a","c","k">>>>, <<<<"T","G","H","T">>, <<"T","i","g","h","t">>>>, <<<<"R","N","D">>, <<"R","o","u","n","d">>>>,
    <<<<"F","L","Y">>, <<"F","l","y">>>>, <<<<"R","F","L","T","V">>, <<"R","e","f","l","e","c","t","i","v","e">>>>, <<<<"W","S","H">>, <<"W","a","s","h">>>>,
    <<<<"R","V","R"," ","S","B","L">>, <<"R","e","v","e","r","s","i","b","l","e">>>>, <<<<"S","T","R","T","C","H">>, <<"S","t","r","e","t","c","h">>>>, <<<<"D","B","L","E">>, <<"D","o","u","b","l","e">>>>,
    <<<<"R","T","R","O">>, <<"R","e","t","r","o">>>>, <<<<"S","T","R","P">>, <<"S","t","r","i","p","e">>>>, <<<<"C","B">>, <<"C","l","u","b">>>>,
    <<<<"H","Z">>, <<"H","a","l","f"," ","Z","i","p">>>>, <<<<"F","Z">>, <<"F","u","l","l"," ","Z","i","p">>>>, <<<<"T","S","H","R","T">>, <<"T","-","S","h","i","r","t">>>>,
    <<<<"S","H","R","T">>, <<"S","h","o","r","t">>>>, <<<<"D","R","S","S">>, <<"D","r","e","s","s">>>>, <<<<"P","R","F","M","N","C">>, <<"P","e","r","f","o","r","m","a","n","c","e">>>>,
    <<<<"R","E","G">>, <<"R","e","g","u","l","a","r">>>>, <<<<"T","N","S">>, <<"T","e","n","n","i","s"," ","S","k","i","r","t">>>>, <<<<"H","C">>, <<"H","a","r","d"," ","C","o","u","r","t">>>>,
    <<<<"T","H","R","M","F","L","X">>, <<"T","h","e","r","m","a"," ","F","l","e","x">>>>, <<<<"U","S","O">>, <<"U","S"," ","O","p","e","n">>>>, <<<<"L","T","W","T">>, <<"L","i","g","h","t","w","e","i","g","h","t">>>>,
    <<<<"B","K","T">>, <<"B","u","c","k","e","t">>>>, <<<<"P","R","M">>, <<"P","r","e","m","i","u","m">>>> >>

\* a configuration file that does not exist
NoFile == [exists |-> FALSE, rows |-> <<>>]

\* d[k] = v on a table of pairs: an existing key keeps its position
DictSet(table, k, v) ==
    IF HasKey(table, k)
    THEN [i \in 1..Len(table) |-> IF table[i][1] = k THEN <<k, v>> ELSE table[i]]
    ELSE Append(table, <<k, v>>)

RECURSIVE AbbrRows(_, _, _)
\* the row loop of _load_abbr_map over the rows [abbr, phrase, scope] of the file
AbbrRows(rows, start_map, any_map) ==
    IF rows = <<>> THEN <<start_map, any_map>>
    ELSE LET ab == Upper(Strip(Head(rows).abbr))
             ph == Strip(Head(rows).phrase)
             scope == Lower(Strip(Head(rows).scope))
         IN IF ab = <<>> \/ ph = <<>> THEN AbbrRows(Tail(rows), start_map, any_map)
            ELSE IF scope = <<"s","t","a","r","t">>
                 THEN AbbrRows(Tail(rows), DictSet(start_map, ab, ph), any_map)
                 ELSE AbbrRows(Tail(rows), start_map, DictSet(any_map, ab, ph))

\* <<start_map, any_map>>: from the file when it exists, else the built-ins
_load_abbr_map(file) ==
    IF file.exists THEN AbbrRows(file.rows, <<>>, <<>>) ELSE <<_abbr_start, _abbr_any>>

_expand_title_with_map(raw, start_map, any_map) ==
    IF raw = <<>> THEN <<>>
    ELSE LET tokens == ReSplitSpaceSlash(Strip(raw))
             out == [i \in 1..Len(tokens) |->
                        LET key == Upper(tokens[i]) IN
                        IF i = 1 /\ HasKey(start_map, key) THEN Lookup(start_map, key)
                        ELSE IF HasKey(any_map, key) THEN Lookup(any_map, key)
                        ELSE tokens[i]]
         IN Strip(JoinWith(out, <<" ">>))

RECURSIVE RStripSpaceHyphen(_)
RStripSpaceHyphen(s) ==
    IF s # <<>> /\ (IsSpace(s[Len(s)]) \/ s[Len(s)] = "-")
    THEN RStripSpaceHyphen(SubSeq(s, 1, Len(s) - 1)) ELSE s

\* re.sub(r"[\s\-]*ln$", "", title.strip(), flags=re.IGNORECASE).strip()
_strip_trailing_ln(title) ==
    LET t == Strip(title) IN
    IF Len(t) >= 2 /\ Lower(SubSeq(t, Len(t) - 1, Len(t))) = <<"l","n">>
    THEN Strip(RStripSpaceHyphen(SubSeq(t, 1, Len(t) - 2)))
    ELSE Strip(t)

RECURSIVE SubNk(_, _)
\* re.sub(r"\bNk\b", "", t, flags=re.IGNORECASE); prevWord: the character
\* before s is a word character
SubNk(s, prevWord) ==
    IF s = <<>> THEN <<>>
    ELSE IF /\ ~prevWord
            /\ Len(s) >= 2
            /\ Lower(SubSeq(s, 1, 2)) = <<"n","k">>
            /\ (Len(s) = 2 \/ ~IsWord(s[3]))
         THEN SubNk(SubSeq(s, 3, Len(s)), TRUE)
         ELSE <<Head(s)>> \o SubNk(Tail(s), IsWord(Head(s)))

RECURSIVE SubNikeNike(_)
\* re.sub(r"Nike\s+Nike", "Nike", t, flags=re.IGNORECASE)
SubNikeNike(s) ==
    IF s = <<>> THEN <<>>
    ELSE LET rest == SubSeq(s, 5, Len(s))
             after == LStrip(rest)
         IN IF /\ Len(s) >= 4
               /\ Lower(SubSeq(s, 1, 4)) = <<"n","i","k","e">>
               /\ Len(after) < Len(rest)
               /\ Len(after) >= 4
               /\ Lower(SubSeq(after, 1, 4)) = <<"n","i","k","e">>
            THEN <<"N","i","k","e">> \o SubNikeNike(SubSeq(after, 5, Len(after)))
            ELSE <<Head(s)>> \o SubNikeNike(Tail(s))

RECURSIVE CollapseSpaces(_)
\* re.sub(r"\s{2,}", " ", t)
CollapseSpaces(s) ==
    IF s = <<>> THEN <<>>
    ELSE IF Len(s) >= 2 /\ IsSpace(s[1]) /\ IsSpace(s[2])
         THEN <<" ">> \o CollapseSpaces(LStrip(s))
         ELSE <<Head(s)>> \o CollapseSpaces(Tail(s))

\* _base_title of prepare_listings_draft, on the expanded title
_base_title(expanded) ==
    LET t == _strip_trailing_ln(Strip(<<"N","i","k","e"," ">> \o expanded)) IN
    IF Contains(t, <<"N","i","k","e">>)
    THEN Strip(CollapseSpaces(SubNikeNike(SubNk(t, FALSE))))
    ELSE t

(***************************************************************************)
(* Classification                                                          *)
(***************************************************************************)

ContainsAny(t, keywords) == \E i \in 1..Len(keywords) : Contains(t, keywords[i])

_detect_gender(title) ==
    LET t == Lower(title) IN
    IF ContainsAny(t, <<<<"g","i","r","l","'","s">>, <<"g","i","r","l","s">>, <<"g","i","r","l">>>>) THEN "girls"
    ELSE IF ContainsAny(t, <<<<"b","o","y","'","s">>, <<"b","o","y","s">>, <<"b","o","y">>>>) THEN "boys"
    ELSE IF ContainsAny(t, <<<<"w","o","m","e","n","'","s">>, <<"w","o","m","e","n">>, <<"w","o","m","e","n","s">>, <<"l","a","d","i","e","s">>, <<"w"," ">>>>) THEN "women"
    ELSE IF ContainsAny(t, <<<<"m","e","n","'","s">>, <<"m","e","n">>, <<"m","e","n","s">>, <<"m"," ">>>>) THEN "men"
    ELSE IF ContainsAny(t, <<<<"j","u","n","i","o","r">>, <<"y","o","u","t","h">>, <<"k","i","d">>, <<"k","i","d","s">>, <<"c","h","i","l","d">>>>) THEN "kids"
    ELSE "unknown"

_top_level_tag(title, item_type) ==
    LET g == _detect_gender(title)
        t == Lower(title)
        is_footwear == \/ ContainsAny(t, <<<<"s","h","o","e">>, <<"s","n","e","a","k","e","r">>, <<"f","o","o","t","w","e","a","r">>>>)
                       \/ Contains(Lower(item_type), <<"s","h","o","e">>)
    IN IF is_footwear
       THEN (IF g = "women" THEN <<"W","o","m","e","n","'","s"," ","F","o","o","t","w","e","a","r">>
             ELSE IF g = "men" THEN <<"M","e","n","'","s"," ","F","o","o","t","w","e","a","r">>
             ELSE <<"K","i","d","'","s"," ","F","o","o","t","w","e","a","r">>)
       ELSE IF g = "women" THEN <<"W","o","m","e","n","'","s"," ","A","p","p","a","r","e","l">>
       ELSE IF g = "men" THEN <<"M","e","n","'","s"," ","A","p","p","a","r","e","l">>
       ELSE IF g = "girls" THEN <<"G","i","r","l","'","s"," ","A","p","p","a","r","e","l">>
       ELSE IF g = "boys" THEN <<"B","o","y","'","s"," ","A","p","p","a","r","e","l">>
       ELSE <<"A","c","c","e","s","s","o","r","i","e","s">>

\* the built-in rules of _load_title_category_map
TitleCategoryDefaults == <<
    <<<<"h","o","o","d","i","e">>, <<"J","a","c","k","e","t"," ","&"," ","H","o","o","d","i","e","s">>>>, <<<<"j","a","c","k","e","t">>, <<"J","a","c","k","e","t"," ","&"," ","H","o","o","d","i","e","s">>>>,
    <<<<"f","l","e","e","c","e">>, <<"T","-","S","h","i","r","t"," ","&"," ","T","o","p","s">>>>, <<<<"s","w","e","a","t","s","h","i","r","t">>, <<"T","-","S","h","i","r","t"," ","&"," ","T","o","p","s">>>>,
    <<<<"t","a","n","k"," ","t","o","p">>, <<"T","-","S","h","i","r","t"," ","&"," ","T","o","p","s">>>>, <<<<"t","a","n","k">>, <<"T","-","S","h","i","r","t"," ","&"," ","T","o","p","s">>>>,
    <<<<"t","o","p">>, <<"T","-","S","h","i","r","t"," ","&"," ","T","o","p","s">>>>, <<<<"s","h","i","r","t">>, <<"T","-","S","h","i","r","t"," ","&"," ","T","o","p","s">>>>,
    <<<<"t","-","s","h","i","r","t">>, <<"T","-","S","h","i","r","t"," ","&"," ","T","o","p","s">>>>, <<<<"p","o","l","o">>, <<"T","-","S","h","i","r","t"," ","&"," ","T","o","p","s">>>>,
    <<<<"b","r","a">>, <<"T","-","S","h","i","r","t"," ","&"," ","T","o","p","s">>>>, <<<<"p","a","n","t">>, <<"P","a","n","t">>>>, <<<<"p","a","n","t","s">>, <<"P","a","n","t">>>>,
    <<<<"j","o","g","g","e","r">>, <<"P","a","n","t">>>>, <<<<"s","h","o","r","t","s">>, <<"S","h","o","r","t","s">>>>, <<<<"s","k","i","r","t">>, <<"S","k","i","r","t","s">>>>,
    <<<<"l","e","g","g","i","n","g","s">>, <<"L","e","g","g","i","n","g","s">>>>, <<<<"d","r","e","s","s">>, <<"D","r","e","s","s">>>>, <<<<"c","a","p">>, <<"H","e","a","d","w","e","a","r">>>>,
    <<<<"h","a","t">>, <<"H","e","a","d","w","e","a","r">>>>, <<<<"b","e","a","n","i","e">>, <<"H","e","a","d","w","e","a","r">>>>, <<<<"s","o","c","k">>, <<"S","o","c","k","s">>>>,
    <<<<"s","h","o","e">>, <<"S","h","o","e","s">>>> >>

RECURSIVE CategoryRows(_)
\* the row loop of _load_title_category_map over the rows [keyword, category]
CategoryRows(rows) ==
    IF rows = <<>> THEN <<>>
    ELSE IF Head(rows).keyword # <<>> /\ Head(rows).category # <<>>
         THEN <<<<Strip(Lower(Head(rows).keyword)), Strip(Head(rows).category)>>>>
              \o CategoryRows(Tail(rows))
         ELSE CategoryRows(Tail(rows))

_load_title_category_map(file) ==
    IF file.exists THEN CategoryRows(file.rows) ELSE TitleCategoryDefaults

\* None of the source
None == <<"None">>

RECURSIVE FirstRule(_, _)
\* the value of the first rule of the list whose keyword occurs in t, or None
FirstRule(rules, t) ==
    IF rules = <<>> THEN None
    ELSE IF Contains(t, Head(rules)[1]) THEN Head(rules)[2]
    ELSE FirstRule(Tail(rules), t)

_category_from_title(title_rules, title, gender) ==
    LET cat == FirstRule(title_rules, Lower(title)) IN
    IF cat = <<"S","h","o","r","t","s">> /\ gender = "women" THEN <<"S","h","o","r","t","s"," ","&"," ","S","k","i","r","t","s">> ELSE cat

_map_product_type(expanded_title) ==
    LET t == Lower(expanded_title) IN
    IF ContainsAny(t, <<<<"s","h","o","e">>, <<"s","n","e","a","k","e","r">>, <<"f","o","o","t","w","e","a","r">>>>) THEN <<"S","h","o","e","s">>
    ELSE IF ContainsAny(t, <<<<"c","a","p">>, <<"h","a","t">>, <<"v","i","s","o","r">>, <<"b","e","a","n","i","e">>, <<"b","u","c","k","e","t">>>>) THEN <<"H","e","a","d","w","e","a","r">>
    ELSE IF ContainsAny(t, <<<<"s","o","c","k">>, <<"s","o","c","k","s">>>>) THEN <<"S","o","c","k","s">>
    ELSE IF ContainsAny(t, <<<<"j","a","c","k","e","t">>, <<"h","o","o","d","i","e">>, <<"f","u","l","l"," ","z","i","p">>, <<"h","a","l","f"," ","z","i","p">>, <<"f","z">>, <<"h","z">>>>)
         THEN <<"J","a","c","k","e","t"," ","&"," ","H","o","o","d","i","e","s">>
    ELSE IF ContainsAny(t, <<<<"l","e","g","g","i","n","g">>, <<"t","i","g","h","t">>>>) THEN <<"L","e","g","g","i","n","g","s">>
    ELSE IF ContainsAny(t, <<<<"d","r","e","s","s">>>>) THEN <<"W","o","m","e","n","'","s"," ","D","r","e","s","s","e","s">>
    ELSE IF ContainsAny(t, <<<<"s","k","i","r","t">>, <<"s","k","o","r","t">>>>) THEN <<"S","h","o","r","t","s"," ","&"," ","S","k","i","r","t","s">>
    ELSE IF ContainsAny(t, <<<<"s","h","o","r","t"," ">>, <<" ","s","h","o","r","t","s">>, <<"s","h","o","r","t","s">>>>) THEN <<"S","h","o","r","t","s">>
    ELSE IF ContainsAny(t, <<<<"p","a","n","t">>, <<"p","a","n","t","s">>, <<"t","r","o","u","s","e","r">>, <<"j","o","g","g","e","r">>>>) THEN <<"P","a","n","t">>
    ELSE IF ContainsAny(t, <<<<"t","e","e">>, <<"t","-","s","h","i","r","t">>, <<"t","o","p">>, <<"p","o","l","o">>, <<"t","a","n","k">>>>) THEN <<"T","-","S","h","i","r","t"," ","&"," ","T","o","p","s">>
    ELSE IF ContainsAny(t, <<<<"b","a","g">>, <<"w","r","i","s","t","b","a","n","d">>, <<"h","e","a","d","b","a","n","d">>, <<"s","l","e","e","v","e">>, <<"a","c","c","e","s","s","o","r","y">>,
                             <<"a","c","c","e","s","s","o","r","i","e","s">>>>) THEN <<"A","c","c","e","s","s","o","r","i","e","s">>
    ELSE None

\* the built-in rules of _load_product_type_map, in list order, each with its
\* priority
ProductTypeDefaults == <<
    <<<<"p","o","l","o">>, <<"T","-","S","h","i","r","t"," ","&"," ","T","o","p","s">>, 10>>, <<<<"s","l","e","e","v","e","l","e","s","s">>, <<"T","-","S","h","i","r","t"," ","&"," ","T","o","p","s">>, 9>>,
    <<<<"l","o","n","g"," ","s","l","e","e","v","e">>, <<"T","-","S","h","i","r","t"," ","&"," ","T","o","p","s">>, 9>>, <<<<"j","a","c","k","e","t">>, <<"J","a","c","k","e","t"," ","&"," ","H","o","o","d","i","e","s">>, 10>>,
    <<<<"h","o","o","d","i","e">>, <<"J","a","c","k","e","t"," ","&"," ","H","o","o","d","i","e","s">>, 10>>, <<<<"s","o","c","k">>, <<"S","o","c","k","s">>, 10>>, <<<<"p","a","n","t">>, <<"P","a","n","t">>, 10>>,
    <<<<"s","h","o","r","t","s">>, <<"S","h","o","r","t","s">>, 10>>, <<<<"d","r","e","s","s">>, <<"W","o","m","e","n","'","s"," ","D","r","e","s","s","e","s">>, 10>>,
    <<<<"t","i","g","h","t">>, <<"L","e","g","g","i","n","g","s">>, 10>>, <<<<"s","k","i","r","t">>, <<"S","h","o","r","t","s"," ","&"," ","S","k","i","r","t","s">>, 10>>,
    <<<<"s","k","o","r","t">>, <<"S","h","o","r","t","s"," ","&"," ","S","k","i","r","t","s">>, 10>>, <<<<"c","a","p">>, <<"H","e","a","d","w","e","a","r">>, 10>>,
    <<<<"b","e","a","n","i","e">>, <<"H","e","a","d","w","e","a","r">>, 10>> >>

RECURSIVE ProductTypeRows(_)
\* the row loop of _load_product_type_map over the rows [keyword, product_type,
\* priority] of the file (priority an int)
ProductTypeRows(rows) ==
    IF rows = <<>> THEN <<>>
    ELSE LET kw == Strip(Head(rows).keyword)
             pt == Strip(Head(rows).product_type)
         IN (IF kw # <<>> /\ pt # <<>> THEN <<<<Lower(kw), pt, Head(rows).priority>>>> ELSE <<>>)
            \o ProductTypeRows(Tail(rows))

\* x sorts before y under key (-priority, keyword)
RuleBefore(x, y) == x[3] > y[3] \/ (x[3] = y[3] /\ StrLess(x[1], y[1]))

RECURSIVE SortRules(_)
\* rules.sort(key=lambda x: (-x[2], x[0])): stable, by insertion from the left
SortRules(rules) ==
    IF rules = <<>> THEN <<>>
    ELSE LET done == SortRules(SubSeq(rules, 1, Len(rules) - 1))
             r == rules[Len(rules)]
             k == Cardinality({i \in 1..Len(done) : ~RuleBefore(r, done[i])})
         IN SubSeq(done, 1, k) \o <<r>> \o SubSeq(done, k + 1, Len(done))

\* the rules with their priorities, in the order _load_product_type_map leaves
\* them in: sorted for a file, in list order for the built-ins
ProductTypeRules(file) ==
    IF file.exists THEN SortRules(ProductTypeRows(file.rows)) ELSE ProductTypeDefaults

\* kw_rules: the (keyword, product_type) pairs _load_product_type_map returns
_load_product_type_map(file) ==
    [i \in 1..Len(ProductTypeRules(file)) |->
        <<ProductTypeRules(file)[i][1], ProductTypeRules(file)[i][2]>>]

\* _resolve_pt of prepare_listings_draft
_resolve_pt(kw_rules, expanded_title, type) ==
    LET byRule == FirstRule(kw_rules, Lower(expanded_title)) IN
    IF byRule # None THEN byRule
    ELSE IF _map_product_type(expanded_title) # None THEN _map_product_type(expanded_title)
    ELSE IF type # <<>> THEN type
    ELSE None

(***************************************************************************)
(* Color codes                                                             *)
(***************************************************************************)

\* the built-in _COLOR_CODE_MAP
BuiltinColorCodeMap == <<
    <<<<"4","5","1">>, <<"N","a","v","y"," ","B","l","u","e">>>>, <<<<"0","1","0">>, <<"B","l","a","c","k">>>>, <<<<"5","8","0">>, <<"L","i","g","h","t"," ","P","u","r","p","l","e">>>>,
    <<<<"4","6","4">>, <<"L","i","g","h","t"," ","B","l","u","e">>>>, <<<<"6","2","9">>, <<"H","o","t"," ","P","i","n","k">>>>, <<<<"3","6","1">>, <<"G","r","e","e","n">>>>,
    <<<<"1","0","0">>, <<"W","h","i","t","e">>>>, <<<<"6","5","7">>, <<"R","e","d">>>>, <<<<"3","7","9">>, <<"T","e","a","l">>>>, <<<<"4","0","2">>, <<"B","l","u","e">>>>,
    <<<<"4","8","9">>, <<"B","l","u","e">>>>, <<<<"1","1","0">>, <<"I","v","o","r","y">>>>, <<<<"5","0","7">>, <<"P","u","r","p","l","e">>>> >>

\* _COLOR_CODE_MAP.get(code.strip(), "")
_color_from_code(map, code) ==
    IF HasKey(map, Strip(code)) THEN Lookup(map, Strip(code)) ELSE <<>>

RECURSIVE ZFill(_, _)
\* str.zfill(width) of a digit string
ZFill(s, width) == IF Len(s) >= width THEN s ELSE ZFill(<<"0">> \o s, width)

\* a store that adds the loaded name to the one the map holds
ColorMapStoreAppend(map, cc, name) ==
    DictSet(map, cc, (IF HasKey(map, cc) THEN Lookup(map, cc) ELSE <<>>) \o name)

\* the assignment _COLOR_CODE_MAP[cc] = name of _load_color_code_map
ColorMapStore(map, cc, name) == DictSet(map, cc, name)

RECURSIVE ColorRows(_, _)
\* the row loop of _load_color_code_map over the rows [color_code, color_name]
ColorRows(rows, map) ==
    IF rows = <<>> THEN map
    ELSE LET cc0 == Strip(Head(rows).color_code)
             name == Strip(Head(rows).color_name)
             cc == IF AllDigits(cc0) THEN ZFill(cc0, 3) ELSE cc0
         IN IF cc0 = <<>> \/ name = <<>> THEN ColorRows(Tail(rows), map)
            ELSE ColorRows(Tail(rows), ColorMapStore(map, cc, name))

\* _load_color_code_map: the value of the global _COLOR_CODE_MAP after loading
\* the file into the map it held before
_load_color_code_map(map, file) ==
    IF file.exists THEN ColorRows(file.rows, map) ELSE map

(***************************************************************************)
(* Selection                                                               *)
(***************************************************************************)

\* _norm_color of _read_selection_csv
_norm_color(cc) ==
    LET s == Strip(cc)
        letters == {i \in 1..Len(s) : s[i] \notin Digits}
        k == IF letters = {} THEN Len(s) + 1
             ELSE CHOOSE i \in letters : \A j \in letters : i <= j
    IN IF s = <<>> THEN <<>>
       ELSE IF AllDigits(s) THEN ZFill(s, 3)
       ELSE IF /\ k \in 2..4
               /\ \A i \in k..Len(s) : UpperChar[s[i]] # LowerChar[s[i]]
            THEN ZFill(SubSeq(s, 1, k - 1), 3) \o Upper(SubSeq(s, k, Len(s)))
       ELSE Upper(s)

\* _norm_style of _read_selection_csv
_norm_style(sc) == Upper(Strip(sc))

\* index of the first "-" of s, 0 when there is none
DashAt(s) ==
    IF \E i \in 1..Len(s) : s[i] = "-"
    THEN CHOOSE i \in 1..Len(s) : s[i] = "-" /\ \A j \in 1..(i - 1) : s[j] # "-"
    ELSE 0

RECURSIVE PairRows(_)
\* the [style_code, color_code] branch of _read_selection_csv
PairRows(rows) ==
    IF rows = <<>> THEN <<>>
    ELSE LET sc == _norm_style(Head(rows).style_code)
             cc == _norm_color(Head(rows).color_code)
         IN (IF sc # <<>> /\ cc # <<>> THEN <<<<sc, cc>>>> ELSE <<>>) \o PairRows(Tail(rows))

RECURSIVE StyleColorRows(_)
\* the [style_color] branch of _read_selection_csv
StyleColorRows(rows) ==
    IF rows = <<>> THEN <<>>
    ELSE LET val == Strip(Head(rows).style_color)
             d == DashAt(val)
             sc == _norm_style(SubSeq(val, 1, d - 1))
             cc == _norm_color(SubSeq(val, d + 1, Len(val)))
         IN (IF d > 0 /\ sc # <<>> /\ cc # <<>> THEN <<<<sc, cc>>>> ELSE <<>>)
            \o StyleColorRows(Tail(rows))

\* _read_selection_csv raises ValueError: the file has neither column set
SelectionCsvRaises(file) ==
    /\ file.exists
    /\ ~({"style_code", "color_code"} \subseteq file.columns)
    /\ "style_color" \notin file.columns

\* the list of (style_code, color_code) pairs _read_selection_csv returns
_read_selection_csv(file) ==
    IF ~file.exists THEN <<>>
    ELSE IF {"style_code", "color_code"} \subseteq file.columns THEN PairRows(file.rows)
    ELSE IF "style_color" \in file.columns THEN StyleColorRows(file.rows)
    ELSE <<>>

RECURSIVE SortStrings(_)
\* sorted(set of str)
SortStrings(S) ==
    IF S = {} THEN <<>>
    ELSE LET m == CHOOSE x \in S : \A y \in S \ {x} : StrLess(x, y)
         IN <<m>> \o SortStrings(S \ {m})

\* pd.NA / NaN in the msrp column (prices are in cents)
NaN == -1

\* one synthesized row of prepare_listings_draft for a missing code
SynthRow(code) ==
    LET d == DashAt(code)
        sc == Upper(Strip(SubSeq(code, 1, d - 1)))
        cc == Upper(Strip(SubSeq(code, d + 1, Len(code))))
    IN [style_code |-> sc, color_code |-> cc, vendor |-> <<>>, type |-> <<>>,
        season |-> <<>>, size |-> <<>>, sku |-> <<>>, qty |-> 0, msrp |-> NaN,
        nike_title_raw |-> sc, nike_color_name_raw |-> <<>>]

RECURSIVE SynthRows(_)
\* synth_rows: one row per missing code that splits at a "-", in sorted order
SynthRows(codes) ==
    IF codes = <<>> THEN <<>>
    ELSE (IF DashAt(Head(codes)) > 0 THEN <<SynthRow(Head(codes))>> ELSE <<>>)
         \o SynthRows(Tail(codes))

\* style_code.upper() + "-" + color_code.upper(), lower-cased
CodeOfRow(r) == Lower(Upper(r.style_code) \o <<"-">> \o Upper(r.color_code))

\* the normalized select_skus set
NormSkus(select_skus) == {Lower(Strip(s)) : s \in {x \in select_skus : Strip(x) # <<>>}}

\* the normalized select_codes set, extended from the selection CSV pairs
NormCodes(select_codes, pairs) ==
    {Lower(Strip(c)) : c \in {x \in select_codes : Strip(x) # <<>>}}
    \cup {Lower(pairs[i][1] \o <<"-">> \o pairs[i][2]) : i \in 1..Len(pairs)}

\* vdf after the SKU filter
SkuFiltered(rows, skus) ==
    IF skus = {} THEN rows
    ELSE LET keep(r) == Lower(Strip(r.sku)) \in skus IN SelectSeq(rows, keep)

\* no selected code is taken as missing
MissingCodesNone(rows, codes) == {}

\* missing_codes: the selected codes no row (after the SKU filter) carries
MissingCodes(rows, codes) ==
    {Upper(c) : c \in {x \in codes : \A i \in 1..Len(rows) : CodeOfRow(rows[i]) # x}}

\* vdf after selection filtering and synthesis of the missing selections
SelectAndSynthesize(rows, skus, codes) ==
    LET bySku == SkuFiltered(rows, skus)
        keep(r) == CodeOfRow(r) \in codes
        byCode == IF codes = {} THEN bySku ELSE SelectSeq(bySku, keep)
    IN byCode \o SynthRows(SortStrings(MissingCodes(bySku, codes)))

(***************************************************************************)
(* Style aggregation and title deduplication                               *)
(***************************************************************************)

RECURSIVE TupleLess(_, _)
\* a < b on tuples of str of equal length
TupleLess(a, b) ==
    IF a = <<>> THEN FALSE
    ELSE IF Head(a) = Head(b) THEN TupleLess(Tail(a), Tail(b))
    ELSE StrLess(Head(a), Head(b))

\* the group key of the style+color table
GroupKey(r) == <<r.style_code, r.color_code, r.vendor, r.type, r.season, r.nike_title_raw>>

RECURSIVE SortKeys(_)
\* the distinct group keys in groupby's sorted order
SortKeys(S) ==
    IF S = {} THEN <<>>
    ELSE LET m == CHOOSE x \in S : \A y \in S \ {x} : TupleLess(x, y)
         IN <<m>> \o SortKeys(S \ {m})

RECURSIVE SumQty(_)
SumQty(rows) == IF rows = <<>> THEN 0 ELSE Head(rows).qty + SumQty(Tail(rows))

\* max over a group, NaN skipped; NaN when every value is NaN
MaxMsrp(rows) ==
    LET vals == {rows[i].msrp : i \in 1..Len(rows)} \ {NaN}
    IN IF vals = {} THEN NaN ELSE CHOOSE v \in vals : \A w \in vals : w <= v

\* prod_sc: vdf grouped by the six keys, msrp max and qty sum per group, with
\* the Expanded Title and Title columns
GroupStyleColor(rows, abbr) ==
    LET keys == SortKeys({GroupKey(rows[i]) : i \in 1..Len(rows)})
    IN [i \in 1..Len(keys) |->
          LET k == keys[i]
              inGroup(r) == GroupKey(r) = k
              g == SelectSeq(rows, inGroup)
              expanded == _expand_title_with_map(k[6], abbr[1], abbr[2])
          IN [style_code |-> k[1], color_code |-> k[2], vendor |-> k[3], type |-> k[4],
              season |-> k[5], nike_title_raw |-> k[6],
              msrp |-> MaxMsrp(g), total_inventory |-> SumQty(g),
              ExpandedTitle |-> expanded, Title |-> _base_title(expanded)]]

RECURSIVE StylesInOrder(_, _)
\* the distinct style codes of a table in order of first appearance
StylesInOrder(rows, seen) ==
    IF rows = <<>> THEN <<>>
    ELSE IF Head(rows).style_code \in seen THEN StylesInOrder(Tail(rows), seen)
    ELSE <<Head(rows).style_code>>
         \o StylesInOrder(Tail(rows), seen \cup {Head(rows).style_code})

\* the rows of one style, in table order
RowsOfStyle(rows, scode) ==
    LET ofStyle(r) == r.style_code = scode IN SelectSeq(rows, ofStyle)

\* the final title the first pass gives one style: the season of the style's
\* first group is appended when its base title is an existing title
FirstPassTitle(base_title, season, existing) ==
    IF base_title \in existing /\ season # <<>>
    THEN base_title \o <<" ","-"," ">> \o season
    ELSE base_title

\* style_to_title of the first pass
StyleToTitle(sc, existing) ==
    LET styles == StylesInOrder(sc, {})
    IN [i \in 1..Len(styles) |->
          LET first == RowsOfStyle(sc, styles[i])[1]
          IN <<styles[i], FirstPassTitle(first.Title, Strip(first.season), existing)>>]

\* GroupBy.first() of the msrp column: the first value that is not NaN
FirstMsrp(rows) ==
    IF \E i \in 1..Len(rows) : rows[i].msrp # NaN
    THEN rows[CHOOSE i \in 1..Len(rows) :
                 rows[i].msrp # NaN /\ \A j \in 1..(i - 1) : rows[j].msrp = NaN].msrp
    ELSE NaN

\* every style+color group of the style stays a row of its own
StyleRowsAll(g) == g

\* the rows that stand for one style in the style-level table: one per style
StyleRows(g) == <<[g[1] EXCEPT !.msrp = FirstMsrp(g)]>>

RECURSIVE CollapseStyles(_, _)
\* prod_sc.sort_values(["style_code"]).groupby("style_code").first(): prod_sc is
\* in style order already and the sort keeps it (at most 16 rows: insertion sort)
CollapseStyles(sc, styles) ==
    IF styles = <<>> THEN <<>>
    ELSE StyleRows(RowsOfStyle(sc, Head(styles))) \o CollapseStyles(sc, Tail(styles))

\* the tag list with the top-level tag ahead of the category tag
ProductTagListTopFirst(title_rules, row) ==
    LET title == row.ExpandedTitle
        gender == _detect_gender(title)
        top_tag == _top_level_tag(title, row.type)
        cat_tag == _category_from_title(title_rules, title, gender)
        season == Strip(row.season)
    IN <<<<"N","i","k","e">>, Upper(row.style_code)>>
       \o (IF Contains(top_tag, <<"F","o","o","t","w","e","a","r">>) THEN <<top_tag>>
           ELSE <<top_tag, IF cat_tag # None THEN cat_tag ELSE <<"N","e","e","d","s"," ","C","a","t","e","g","o","r","y">>>>)
       \o (IF season # <<>> THEN <<season>> ELSE <<>>)

\* the tag list of _product_tags before it is joined
ProductTagList(title_rules, row) ==
    LET title == row.ExpandedTitle
        gender == _detect_gender(title)
        top_tag == _top_level_tag(title, row.type)
        cat_tag == _category_from_title(title_rules, title, gender)
        season == Strip(row.season)
    IN <<<<"N","i","k","e">>, Upper(row.style_code)>>
       \o (IF Contains(top_tag, <<"F","o","o","t","w","e","a","r">>) THEN <<top_tag>>
           ELSE <<IF cat_tag # None THEN cat_tag ELSE <<"N","e","e","d","s"," ","C","a","t","e","g","o","r","y">>, top_tag>>)
       \o (IF season # <<>> THEN <<season>> ELSE <<>>)

_product_tags(title_rules, row) ==
    JoinWith(SelectNonEmpty(ProductTagList(title_rules, row)), <<","," ">>)

\* prod after the first pass: one row per style with the canonical title,
\* handle, product type and tags
BuildProducts(sc, stt, kw_rules, title_rules) ==
    LET p == CollapseStyles(sc, SortStrings({sc[i].style_code : i \in 1..Len(sc)}))
    IN [i \in 1..Len(p) |->
          [style_code |-> p[i].style_code, type |-> p[i].type, season |-> p[i].season,
           msrp |-> p[i].msrp, total_inventory |-> p[i].total_inventory,
           ExpandedTitle |-> p[i].ExpandedTitle,
           Title |-> IF HasKey(stt, p[i].style_code) THEN Lookup(stt, p[i].style_code)
                     ELSE p[i].Title,
           Handle |-> <<"n","i","k","e","-">> \o Lower(p[i].style_code),
           ProductType |-> _resolve_pt(kw_rules, p[i].ExpandedTitle, p[i].type),
           Tags |-> _product_tags(title_rules, p[i])]]

\* keep="first": the first row of a title is not marked
DupWithinKeepFirst(p, i) == \E j \in 1..(i - 1) : p[j].Title = p[i].Title

\* the rows the second pass treats as duplicates: keep=False marks every row
\* whose title another row has
DupWithin(p, i) == \E j \in 1..Len(p) : j # i /\ p[j].Title = p[i].Title

\* the title the second pass gives a row marked as a duplicate
SecondPassTitle(row) ==
    IF Strip(row.season) # <<>> THEN row.Title \o <<" ","-"," ">> \o row.season ELSE row.Title

\* prod after the second pass
SecondPassProducts(p, existing) ==
    [i \in 1..Len(p) |->
        IF DupWithin(p, i) \/ p[i].Title \in existing
        THEN [p[i] EXCEPT !.Title = SecondPassTitle(p[i])]
        ELSE p[i]]

\* the Products sheet: the exported columns of prod
ProductsSheet(p) ==
    [i \in 1..Len(p) |->
        [style_code |-> p[i].style_code, Title |-> p[i].Title, Handle |-> p[i].Handle,
         Vendor |-> <<"N","i","k","e">>, ProductType |-> p[i].ProductType, Tags |-> p[i].Tags,
         BodyHTML |-> <<"S","t","y","l","e",":"," ">> \o Upper(p[i].style_code), season |-> p[i].season,
         msrp |-> p[i].msrp, total_inventory |-> p[i].total_inventory]]

(***************************************************************************)
(* Variant table                                                           *)
(***************************************************************************)

\* _cost_from_msrp, in cents; the prices of the model are whole dollars, for
\* which the float products and round(.., 2) are exact
_cost_from_msrp(msrp, item_type) ==
    LET t == Lower(item_type) IN
    IF msrp = NaN THEN NaN
    ELSE IF Contains(t, <<"s","h","o","e">>) \/ Contains(t, <<"f","o","o","t","w","e","a","r">>) THEN (msrp * 55) \div 100
    ELSE (msrp * 50) \div 100

\* the value of the Option1 Value column: the name by code, else the raw name
ResolveColor(map, r) ==
    IF _color_from_code(map, r.color_code) # <<>> THEN _color_from_code(map, r.color_code)
    ELSE Strip(r.nike_color_name_raw)

\* row.get("season", "") in _variant_tags: both frames of the merge have a
\* season column, so the merged frame has season_x and season_y and no column
\* "season", and the default is returned
RowGetSeason(row) == <<>>

\* the tag list of _variant_tags before it is joined
VariantTagList(title_rules, row) ==
    LET title == row.ExpandedTitle
        gender == _detect_gender(title)
        top == _top_level_tag(title, row.type)
        cat == _category_from_title(title_rules, title, gender)
        season == Strip(RowGetSeason(row))
        base == <<<<"N","i","k","e">>, Upper(row.style_code)>>
        tags == IF Contains(top, <<"F","o","o","t","w","e","a","r">>) THEN Append(base, top)
                ELSE LET t2 == base \o <<IF cat # None THEN cat ELSE <<"N","e","e","d","s"," ","C","a","t","e","g","o","r","y">>, top>>
                     IN IF /\ cat \in {<<"H","e","a","d","w","e","a","r">>, <<"S","o","c","k","s">>}
                           /\ \A i \in 1..Len(t2) : t2[i] # <<"A","c","c","e","s","s","o","r","i","e","s">>
                        THEN Append(t2, <<"A","c","c","e","s","s","o","r","i","e","s">>) ELSE t2
    IN tags \o (IF season # <<>> THEN <<season>> ELSE <<>>)

_variant_tags(title_rules, row) == JoinWith(VariantTagList(title_rules, row), <<","," ">>)

\* the columns the variant table has before the merge
VariantColumns(map, r) ==
    [StyleColor |-> r.style_code \o <<"-">> \o r.color_code,
     VariantSKU |-> r.sku, style_code |-> r.style_code, color_code |-> r.color_code,
     ColorByCode |-> _color_from_code(map, r.color_code),
     Option2Value |-> _normalize_size(r.size, r.type),
     Option1Value |-> ResolveColor(map, r),
     VariantPrice |-> r.msrp, CostPerItem |-> _cost_from_msrp(r.msrp, r.type),
     VariantInventoryQty |-> r.qty, size |-> r.size, msrp |-> r.msrp, qty |-> r.qty,
     type |-> r.type, season_x |-> r.season,
     VariantNotes |-> IF r.msrp = NaN THEN <<"M","i","s","s","i","n","g"," ","M","S","R","P">> ELSE <<>>]

\* a join without the key: every row of prod_light joins every variant row
MergeMatchesAll(p, v) == p

\* the rows of prod_light that join one variant row (on style_code)
MergeMatches(p, v) ==
    LET sameStyle(q) == q.style_code = v.style_code IN SelectSeq(p, sameStyle)

RECURSIVE MergeLeft(_, _, _)
\* variants.merge(prod_light, on=["style_code"], how="left") followed by the
\* Tags column
MergeLeft(vs, p, title_rules) ==
    IF vs = <<>> THEN <<>>
    ELSE LET v == Head(vs)
             m == MergeMatches(p, v)
             joined == [j \in 1..Len(m) |->
                 LET row == [style_code |-> v.style_code, type |-> v.type,
                             ExpandedTitle |-> m[j].ExpandedTitle]
                 IN [StyleColor |-> v.StyleColor, VariantSKU |-> v.VariantSKU,
                     style_code |-> v.style_code, color_code |-> v.color_code,
                     ColorByCode |-> v.ColorByCode, Option2Value |-> v.Option2Value,
                     Option1Value |-> v.Option1Value, VariantPrice |-> v.VariantPrice,
                     CostPerItem |-> v.CostPerItem,
                     Tags |-> _variant_tags(title_rules, row),
                     VariantInventoryQty |-> v.VariantInventoryQty, size |-> v.size,
                     msrp |-> v.msrp, qty |-> v.qty, type |-> v.type,
                     VariantNotes |-> v.VariantNotes]]
         IN joined \o MergeLeft(Tail(vs), p, title_rules)

DigitVal(c) == Ord[c] - Ord["0"]

RECURSIVE IntOf(_)
\* int of a string of digits (0 for the empty string)
IntOf(ds) == IF ds = <<>> THEN 0 ELSE IntOf(SubSeq(ds, 1, Len(ds) - 1)) * 10 + DigitVal(ds[Len(ds)])

RECURSIVE Pow10(_)
Pow10(k) == IF k = 0 THEN 1 ELSE 10 * Pow10(k - 1)

\* float(s) succeeds: the plain decimals (the other float literals of Python,
\* with a sign, an exponent, inf or nan, are no sizes of the model)
IsFloat(s) ==
    LET dots == {i \in 1..Len(s) : s[i] = "."} IN
    /\ Cardinality(dots) <= 1
    /\ \A i \in 1..Len(s) : s[i] \in Digits \cup {"."}
    /\ \E i \in 1..Len(s) : s[i] \in Digits

\* float(s) as the fraction <<numerator, denominator>>
FloatOf(s) ==
    LET digits == SelectSeq(s, LAMBDA c : c # ".")
        dot == IF \E i \in 1..Len(s) : s[i] = "." THEN CHOOSE i \in 1..Len(s) : s[i] = "."
               ELSE Len(s)
    IN <<IntOf(digits), Pow10(Len(s) - dot)>>

\* the "order" dict of _size_rank
SizeOrder == <<
    <<<<"2","X","S">>, 0>>, <<<<"X","X","S">>, 1>>, <<<<"X","S">>, 2>>, <<<<"S">>, 3>>, <<<<"M">>, 4>>, <<<<"L">>, 5>>,
    <<<<"X","L">>, 6>>, <<<<"2","X","L">>, 7>>, <<<<"3","X","L">>, 8>>, <<<<"4","X","L">>, 9>>, <<<<"5","X","L">>, 10>> >>

\* every size ranked as an unknown one: the order of the upper-cased strings
_size_rank_text(val) == <<1, 999, 1, Upper(Strip(val))>>

\* _size_rank: (0, float) as <<0, num, den, "">>, (1, rank, s) as <<1, rank, 1, s>>
_size_rank(val) ==
    LET s == Upper(Strip(val)) IN
    IF IsFloat(s) THEN <<0, FloatOf(s)[1], FloatOf(s)[2], <<>>>>
    ELSE <<1, IF HasKey(SizeOrder, s) THEN Lookup(SizeOrder, s) ELSE 999, 1, s>>

\* a < b on the tuples of _size_rank
SizeKeyLess(a, b) ==
    IF a[1] # b[1] THEN a[1] < b[1]
    ELSE IF a[2] * b[3] # b[2] * a[3] THEN a[2] * b[3] < b[2] * a[3]
    ELSE StrLess(a[4], b[4])

\* a sorts before b by style_code, Option1 Value, _size_key
VariantLess(a, b) ==
    IF a.style_code # b.style_code THEN StrLess(a.style_code, b.style_code)
    ELSE IF a.Option1Value # b.Option1Value THEN StrLess(a.Option1Value, b.Option1Value)
    ELSE SizeKeyLess(_size_rank(a.Option2Value), _size_rank(b.Option2Value))

RECURSIVE InsertStable(_, _)
\* r put after every row of the sorted list that does not sort after it
InsertStable(sorted, r) ==
    IF sorted = <<>> THEN <<r>>
    ELSE IF VariantLess(r, Head(sorted)) THEN <<r>> \o sorted
    ELSE <<Head(sorted)>> \o InsertStable(Tail(sorted), r)

RECURSIVE SortVariants(_)
\* sort_values(by=[style_code, Option1 Value, _size_key], kind="mergesort")
SortVariants(rows) ==
    IF rows = <<>> THEN <<>>
    ELSE InsertStable(SortVariants(SubSeq(rows, 1, Len(rows) - 1)), rows[Len(rows)])

\* the Variants sheet
VariantsSheet(rows, map, p, title_rules) ==
    SortVariants(MergeLeft([i \in 1..Len(rows) |-> VariantColumns(map, rows[i])],
                           p, title_rules))

(***************************************************************************)
(* Inputs of the model                                                     *)
(***************************************************************************)

\* longest feed, in rows
MaxRows == 2

\* longest generated size string, in characters
MaxSizeLen == 4

Row(sc, cc, ty, se, sz, sku, q, m, title, cname) ==
    [style_code |-> sc, color_code |-> cc, vendor |-> <<"N","I","K","E"," ","-"," ","T","e","n","n","i","s">>, type |-> ty,
     season |-> se, size |-> sz, sku |-> sku, qty |-> q, msrp |-> m,
     nike_title_raw |-> title, nike_color_name_raw |-> cname]

\* the variant rows load_nuorder_nike_variants can return that feeds are made
\* of: style codes [A-Z]{2}\d{4}, three-digit color codes, every text cell a
\* str (a missing cell reads "nan", a blank one keeps its blank)
FeedRows == {
    Row(<<"A","B","1","2","3","4">>, <<"0","1","0">>, <<"T","e","n","n","i","s"," ","P","o","l","o">>, <<"S","u","m","m","e","r"," ","2","0","2","6">>, <<"S">>, <<"S","1">>, 3, 5000, <<"M"," ","D","F"," ","P","o","l","o">>, <<"B","l","a","c","k">>),
    Row(<<"A","B","1","2","3","4">>, <<"1","0","0">>, <<"T","e","n","n","i","s"," ","P","o","l","o">>, <<"S","u","m","m","e","r"," ","2","0","2","6">>, <<"M">>, <<"S","2">>, 2, 5000, <<"M"," ","D","F"," ","P","o","l","o">>, <<"W","h","i","t","e">>),
    Row(<<"C","D","5","6","7","8">>, <<"4","0","2">>, <<"T","e","n","n","i","s"," ","P","o","l","o">>, <<"S","u","m","m","e","r"," ","2","0","2","6">>, <<"L">>, <<"S","3">>, 1, 6000, <<"M"," ","D","F"," ","P","o","l","o">>, <<"R","o","y","a","l">>),
    Row(<<"C","D","5","6","7","8">>, <<"4","8","9">>, <<"T","e","n","n","i","s"," ","S","h","o","e","s">>, <<"F","a","l","l"," ","2","0","2","6">>, <<"W"," ","8",".","5">>, <<"S","4">>, 0, NaN, <<"M"," ","D","F"," ","P","o","l","o">>, <<"R","o","y","a","l">>),
    Row(<<"E","F","9","0","1","2">>, <<"9","9","9">>, <<"T","e","n","n","i","s"," ","P","o","l","o">>, <<" ">>, <<"X","L">>, <<"S","5">>, 4, 5000, <<"M"," ","D","F"," ","P","o","l","o">>, <<"V","o","l","t">>),
    Row(<<"E","F","9","0","1","2">>, <<"0","1","0">>, <<"n","a","n">>, <<"n","a","n">>, <<"n","a","n">>, <<"S","6">>, 0, 4000, <<"N","K"," ","C","o","u","r","t"," ","T","e","e">>, <<"n","a","n">>) }

Feeds == UNION {[1..n -> FeedRows] : n \in 1..MaxRows}

\* select_codes arguments
CodeSelections == SUBSET {<<"A","B","1","2","3","4","-","0","1","0">>, <<"g","h","3","4","5","6","-","1","0","0">>} \cup {{<<"A","B","1","2","3","4","-","0","1","0">>, <<"e","f","9","0","1","2">>}}

\* select_skus arguments
SkuSelections == {{}, {<<"s","1">>, <<"S","4">>}}

\* selection CSV files
SelectionFiles == {
    NoFile,
    [exists |-> TRUE, columns |-> {"style_code", "color_code"},
     rows |-> <<[style_code |-> <<"c","d","5","6","7","8">>, color_code |-> <<"4","0","2">>]>>],
    [exists |-> TRUE, columns |-> {"style_color"},
     rows |-> <<[style_color |-> <<"c","d","5","6","7","8","-","4","0","2">>], [style_color |-> <<"a","b","1","2","3","4">>]>>],
    [exists |-> TRUE, columns |-> {"style", "color"}, rows |-> <<>>] }

\* what fetch_products_snapshot can meet: the titles on the platform, and
\* whether the request for them answers (ok) or raises
Snapshots == {
    [ok |-> FALSE, titles |-> {<<"N","i","k","e"," ","M","e","n","'","s"," ","D","r","i","-","F","I","T"," ","P","o","l","o">>}],
    [ok |-> TRUE, titles |-> {<<"N","i","k","e"," ","M","e","n","'","s"," ","D","r","i","-","F","I","T"," ","P","o","l","o">>}],
    [ok |-> TRUE,
     titles |-> {<<"N","i","k","e"," ","M","e","n","'","s"," ","D","r","i","-","F","I","T"," ","P","o","l","o">>, <<"N","i","k","e"," ","M","e","n","'","s"," ","D","r","i","-","F","I","T"," ","P","o","l","o"," ","-"," ","S","u","m","m","e","r"," ","2","0","2","6">>}] }

\* color code map files
ColorFiles == {
    NoFile,
    [exists |-> TRUE, rows |-> <<[color_code |-> <<"1","0">>, color_name |-> <<"O","n","y","x">>]>>] }

\* the values _COLOR_CODE_MAP can hold when a call starts
ReachableColorMaps == {_load_color_code_map(BuiltinColorCodeMap, f) : f \in ColorFiles}

\* the item types and size strings the size normalization is applied to
SizeAlphabet == {"M", "w", " ", "8", ".", "5"}

ItemTypes == {<<"T","e","n","n","i","s"," ","P","o","l","o">>, <<"T","e","n","n","i","s"," ","S","h","o","e","s">>, <<"M","e","n","'","s"," ","F","o","o","t","w","e","a","r">>}

\* the long-form and symbolic size names, each with its canonical token
SizeSynonyms == {
    <<<<"X","X"," ","S","M","A","L","L">>, <<"2","X","S">>>>, <<<<"X","X","S">>, <<"2","X","S">>>>, <<<<"X"," ","S","M","A","L","L">>, <<"X","S">>>>, <<<<"E","X","T","R","A"," ","S","M","A","L","L">>, <<"X","S">>>>,
    <<<<"S","M","A","L","L">>, <<"S">>>>, <<<<"M","E","D","I","U","M">>, <<"M">>>>, <<<<"L","A","R","G","E">>, <<"L">>>>, <<<<"X"," ","L","A","R","G","E">>, <<"X","L">>>>,
    <<<<"E","X","T","R","A"," ","L","A","R","G","E">>, <<"X","L">>>>, <<<<"X","X"," ","L","A","R","G","E">>, <<"2","X","L">>>>, <<<<"X","X","L">>, <<"2","X","L">>>>, <<<<"2","X">>, <<"2","X","L">>>>,
    <<<<"X","X","X"," ","L","A","R","G","E">>, <<"3","X","L">>>>, <<<<"X","X","X","L">>, <<"3","X","L">>>>, <<<<"3","X">>, <<"3","X","L">>>>, <<<<"X","X","X","X","L">>, <<"4","X","L">>>>,
    <<<<"4","X">>, <<"4","X","L">>>> }

\* the spelled-out demographic qualifiers among the leading tokens that
\* _normalize_size drops
DemographicQualifiers == {<<"W","O","M","E","N">>, <<"W","O","M","E","N","S">>, <<"W","O","M","E","N","'","S">>, <<"M","E","N","S">>, <<"M","E","N">>, <<"M","E","N","'","S">>, <<"B","O","Y","S">>,
                          <<"G","I","R","L","S">>, <<"Y","O","U","T","H">>, <<"K","I","D","S">>}

\* the canonical apparel size tokens: the values of the mapping
CanonicalSizes == {<<"2","X","S">>, <<"X","S">>, <<"S">>, <<"M">>, <<"L">>, <<"X","L">>, <<"2","X","L">>, <<"3","X","L">>, <<"4","X","L">>}

\* a size name in every letter case, written with spaces and with hyphens
SizeNameForms(name) ==
    LET letters == {i \in 1..Len(name) : LowerChar[name[i]] # name[i]}
        cased == {[i \in 1..Len(name) |-> IF i \in low THEN LowerChar[name[i]] ELSE name[i]] :
                     low \in SUBSET letters}
    IN cased \cup {[i \in 1..Len(c) |-> IF c[i] = " " THEN "-" ELSE c[i]] : c \in cased}

SizeInputs ==
    {<<"W"," ","8",".","5">>, <<"M"," ","8",".","5">>, <<"w","8",".","5">>, <<"W"," ","1","0">>, <<"X","X","L">>, <<"x","-","l","a","r","g","e">>, <<"E","x","t","r","a"," ","L","a","r","g","e">>, <<"W","O","M","E","N","S"," ","S">>,
     <<"1","0","-","1","2">>, <<"O","n","e"," ","S","i","z","e">>, <<"S","/","M">>}
    \cup UNION {[1..n -> SizeAlphabet] : n \in 0..MaxSizeLen}
    \cup UNION {SizeNameForms(p[1]) : p \in SizeSynonyms}
    \cup {q \o <<" ">> \o p[1] : q \in DemographicQualifiers, p \in SizeSynonyms}
    \cup CanonicalSizes

\* raw titles, abbreviation files and product type files the title
\* classification is applied to
RawTitles == {<<"M"," ","D","F"," ","P","o","l","o">>, <<"N","K"," ","C","o","u","r","t"," ","T","e","e">>, <<"/","M"," ","P","o","l","o">>, <<"W"," ","B","o","y","f","r","i","e","n","d"," ","T","e","e">>, <<"M"," ","D","F"," ","C","a","p">>,
              <<"U"," ","C","r","e","w"," ","S","o","c","k">>, <<"M"," ","P","o","l","o"," ","J","a","c","k","e","t">>, <<"C","o","u","r","t"," ","S","h","o","e">>, <<"B"," ","A","i","r"," ","Z","o","o","m"," ","S","h","o","e">>,
              <<"W"," ","C","B"," ","S","h","o","r","t","s">>, <<"G"," ","T","N","S">>, <<"a","b"," ","h","z"," "," ","t","o","p">>}

AbbrFiles == {
    NoFile,
    [exists |-> TRUE,
     rows |-> <<[abbr |-> <<"m">>, phrase |-> <<"M","e","n","s"," ">>, scope |-> <<"S","t","a","r","t">>],
                [abbr |-> <<"d","f">>, phrase |-> <<"D","r","y"," ","F","i","t">>, scope |-> <<"a","n","y">>],
                [abbr |-> <<"p","o","l","o">>, phrase |-> <<"P","o","l","o"," ","S","h","i","r","t">>, scope |-> <<"n","a","n">>]>>] }

ProductTypeFiles == {
    NoFile,
    [exists |-> TRUE,
     rows |-> <<[keyword |-> <<"P","o","l","o">>, product_type |-> <<"P","o","l","o","s">>, priority |-> 1],
                [keyword |-> <<"j","a","c","k","e","t">>, product_type |-> <<"O","u","t","e","r","w","e","a","r">>, priority |-> 5],
                [keyword |-> <<"d","r","i","-","f","i","t">>, product_type |-> <<"P","e","r","f","o","r","m","a","n","c","e">>, priority |-> 5]>>] }

TitleInputs ==
    {[raw |-> r, type |-> t, season |-> se, style_code |-> <<"A","B","1","2","3","4">>, abbr_file |-> af,
      pt_file |-> pf] :
        r \in RawTitles, t \in {<<"T","e","n","n","i","s"," ","P","o","l","o">>, <<"T","e","n","n","i","s"," ","S","h","o","e","s">>, <<>>},
        se \in {<<>>, <<"S","u","m","m","e","r"," ","2","0","2","6">>}, af \in AbbrFiles, pf \in ProductTypeFiles}

\* longest variant table that is ordered, in rows
MaxSortRows == 3

\* the sizes of the ordered rows: canonical apparel tokens and numeric
\* footwear sizes, as _normalize_size leaves them
SortSizes == {<<"2","X","S">>, <<"X","S">>, <<"S">>, <<"M">>, <<"L">>, <<"X","L">>, <<"2","X","L">>, <<"3","X","L">>, <<"4","X","L">>, <<"7">>, <<"9",".","5">>, <<"1","0">>}

\* the rows of a variant table as far as the ordering reads them: style code,
\* color name (Option1 Value) and size (Option2 Value)
SortRows ==
    {[style_code |-> sc, Option1Value |-> c, Option2Value |-> sz] :
        sc \in {<<"A","B","1","2","3","4">>, <<"C","D","5","6","7","8">>}, c \in {<<"B","l","a","c","k">>, <<"W","h","i","t","e">>}, sz \in SortSizes}

(***************************************************************************)
(* State                                                                   *)
(***************************************************************************)

VARIABLES
    pc,               \* where prepare_listings_draft stands
    COLOR_CODE_MAP,   \* the module-level _COLOR_CODE_MAP
    args,             \* the arguments of the call in progress and its feed
    vdf,              \* the variant rows after selection and synthesis
    prod_sc,          \* the style+color table
    existing_titles,  \* the set existing_titles: the latest platform snapshot
    snapshot1,        \* the value existing_titles had in the first pass
    snapshot_failed,  \* the passes (1, 2) whose snapshot request raised
    style_to_title,   \* the dict of the first pass
    prod,             \* the style-level table
    color_file,       \* the color code map file the call loaded
    Variants,         \* the Variants sheet
    first_run,        \* rerun driver: inputs and sheets of the first call
    size_val, item_type, size_out,  \* size normalization: arguments and result
    title_in,         \* title classification: the raw title, its row and the files
    title_out,        \* title classification: what has been derived so far
    sort_in,          \* variant ordering: the rows of the variant table
    sort_out,         \* variant ordering: the rows as exported
    colors_in,        \* color uniqueness: the raw colors of the style and the map file
    colors,           \* color uniqueness: the locals of _normalize_colors_for_style
    retry             \* HTTP retry: the helper called, its loop and its outcome

pipeVars == <<pc, COLOR_CODE_MAP, args, vdf, prod_sc, existing_titles, snapshot1,
              snapshot_failed, style_to_title, prod, color_file, Variants>>

sizeVars == <<size_val, item_type, size_out>>

titleVars == <<title_in, title_out>>

sortVars == <<sort_in, sort_out>>

colorVars == <<colors_in, colors>>

retryVars == <<retry>>

auxVars == <<sortVars, colorVars, retryVars>>

vars == <<pipeVars, first_run, sizeVars, titleVars, auxVars>>

\* the Products sheet of the state
Products == ProductsSheet(prod)

NoArgs == [feed |-> <<>>, select_skus |-> {}, select_codes |-> {}, selection_csv |-> NoFile]

NoRun == [calls |-> 0]

Pending == <<"pending">>

PipeInit ==
    /\ pc = "idle"
    /\ COLOR_CODE_MAP = BuiltinColorCodeMap
    /\ args = NoArgs
    /\ vdf = <<>>
    /\ prod_sc = <<>>
    /\ existing_titles = {}
    /\ snapshot1 = {}
    /\ snapshot_failed = {}
    /\ style_to_title = <<>>
    /\ prod = <<>>
    /\ color_file = NoFile
    /\ Variants = <<>>

SizeIdle ==
    /\ size_val = <<>>
    /\ item_type = <<>>
    /\ size_out = Pending

NoTitle == [raw |-> <<>>, type |-> <<>>, season |-> <<>>, style_code |-> <<>>,
            abbr_file |-> NoFile, pt_file |-> NoFile]

TitleIdle ==
    /\ title_in = NoTitle
    /\ title_out = [stage |-> "raw"]

SortIdle ==
    /\ sort_in = <<>>
    /\ sort_out = [sorted |-> FALSE, rows |-> <<>>]

NoColors == [raw |-> <<>>, file |-> NoFile]

ColorsIdle ==
    /\ colors_in = NoColors
    /\ colors = [pc |-> "idle"]

RetryIdle == retry = [pc |-> "idle"]

AuxIdle == SortIdle /\ ColorsIdle /\ RetryIdle

Init ==
    /\ PipeInit
    /\ first_run = NoRun
    /\ SizeIdle
    /\ TitleIdle
    /\ AuxIdle

(***************************************************************************)
(* prepare_listings_draft, step by step                                    *)
(***************************************************************************)

\* the normalized selection of a call
SelectedSkus(a) == NormSkus(a.select_skus)

SelectedCodes(a) == NormCodes(a.select_codes, _read_selection_csv(a.selection_csv))

\* the frame the style+color table is built from
SelectedRows(a) == SelectAndSynthesize(a.feed, SelectedSkus(a), SelectedCodes(a))

\* the call raises before any title is built: a selection CSV without the
\* expected columns, or no row left (the Title column cannot be set on an
\* empty frame)
CallRaises(a) == SelectionCsvRaises(a.selection_csv) \/ SelectedRows(a) = <<>>

\* lines 605-682: load, select, synthesize, group, expand and build base titles
CallStep(a) ==
    /\ pc = "idle"
    /\ args' = a
    /\ existing_titles' = {}
    /\ snapshot1' = {}
    /\ snapshot_failed' = {}
    /\ style_to_title' = <<>>
    /\ prod' = <<>>
    /\ color_file' = NoFile
    /\ Variants' = <<>>
    /\ UNCHANGED COLOR_CODE_MAP
    /\ IF CallRaises(a)
       THEN /\ pc' = "aborted"
            /\ vdf' = <<>>
            /\ prod_sc' = <<>>
       ELSE /\ pc' = "grouped"
            /\ vdf' = SelectedRows(a)
            /\ prod_sc' = GroupStyleColor(SelectedRows(a), _load_abbr_map(NoFile))

\* the titles of the platform whether or not the request answered
ExistingTitlesUnguarded(snap) == snap.titles

\* the set existing_titles is bound to after a snapshot request
ExistingTitles(snap) == IF snap.ok THEN snap.titles ELSE {}

\* lines 684-761: first snapshot, canonical title per style, style-level table
FirstPassStep(snap) ==
    /\ pc = "grouped"
    /\ pc' = "first_pass"
    /\ existing_titles' = ExistingTitles(snap)
    /\ snapshot1' = ExistingTitles(snap)
    /\ snapshot_failed' = IF snap.ok THEN {} ELSE {1}
    /\ style_to_title' = StyleToTitle(prod_sc, ExistingTitles(snap))
    /\ prod' = BuildProducts(prod_sc, StyleToTitle(prod_sc, ExistingTitles(snap)),
                             _load_product_type_map(NoFile), _load_title_category_map(NoFile))
    /\ UNCHANGED <<COLOR_CODE_MAP, args, vdf, prod_sc, color_file, Variants>>

\* lines 762-774: second snapshot, season appended to the duplicates
SecondPassStep(snap) ==
    /\ pc = "first_pass"
    /\ pc' = "second_pass"
    /\ existing_titles' = ExistingTitles(snap)
    /\ snapshot_failed' = snapshot_failed \cup (IF snap.ok THEN {} ELSE {2})
    /\ prod' = SecondPassProducts(prod, ExistingTitles(snap))
    /\ UNCHANGED <<COLOR_CODE_MAP, args, vdf, prod_sc, snapshot1, style_to_title, color_file,
                   Variants>>

\* lines 776-872: color map load, variant table, merge, tags, sort, export
VariantsStep(file) ==
    /\ pc = "second_pass"
    /\ pc' = "done"
    /\ color_file' = file
    /\ COLOR_CODE_MAP' = _load_color_code_map(COLOR_CODE_MAP, file)
    /\ Variants' = VariantsSheet(vdf, _load_color_code_map(COLOR_CODE_MAP, file), prod,
                                 _load_title_category_map(NoFile))
    /\ UNCHANGED <<args, vdf, prod_sc, existing_titles, snapshot1, snapshot_failed,
                   style_to_title, prod>>

\* the call returns output_path, or its exception leaves the function: the
\* locals are gone, the module-level map stays
ReturnStep ==
    /\ pc \in {"done", "aborted"}
    /\ pc' = "idle"
    /\ args' = NoArgs
    /\ vdf' = <<>>
    /\ prod_sc' = <<>>
    /\ existing_titles' = {}
    /\ snapshot1' = {}
    /\ snapshot_failed' = {}
    /\ style_to_title' = <<>>
    /\ prod' = <<>>
    /\ color_file' = NoFile
    /\ Variants' = <<>>
    /\ UNCHANGED COLOR_CODE_MAP

AllArgs ==
    {[feed |-> f, select_skus |-> k, select_codes |-> c, selection_csv |-> s] :
        f \in Feeds, k \in SkuSelections, c \in CodeSelections, s \in SelectionFiles}

Call == \E a \in AllArgs : CallStep(a) /\ UNCHANGED <<first_run, sizeVars, titleVars, auxVars>>

FirstPass == \E snap \in Snapshots : FirstPassStep(snap) /\ UNCHANGED <<first_run, sizeVars, titleVars, auxVars>>

SecondPass == \E snap \in Snapshots : SecondPassStep(snap) /\ UNCHANGED <<first_run, sizeVars, titleVars, auxVars>>

BuildVariants == \E file \in ColorFiles : VariantsStep(file) /\ UNCHANGED <<first_run, sizeVars, titleVars, auxVars>>

Return == ReturnStep /\ UNCHANGED <<first_run, sizeVars, titleVars, auxVars>>

Next == Call \/ FirstPass \/ SecondPass \/ BuildVariants \/ Return

Spec == Init /\ [][Next]_vars

(***************************************************************************)
(* A driver that calls prepare_listings_draft twice with the same feed,    *)
(* selections, snapshots and color map file, in a process whose color map  *)
(* earlier calls may have extended                                         *)
(***************************************************************************)

InitRerun ==
    /\ pc = "idle"
    /\ COLOR_CODE_MAP \in ReachableColorMaps
    /\ args = NoArgs
    /\ vdf = <<>>
    /\ prod_sc = <<>>
    /\ existing_titles = {}
    /\ snapshot1 = {}
    /\ snapshot_failed = {}
    /\ style_to_title = <<>>
    /\ prod = <<>>
    /\ color_file = NoFile
    /\ Variants = <<>>
    /\ first_run = NoRun
    /\ SizeIdle
    /\ TitleIdle
    /\ AuxIdle

\* the selection of the call is malformed: a selection CSV with neither column
\* set, a style_color value without "-", or a select_codes entry without "-"
MalformedSelection(a) ==
    \/ SelectionCsvRaises(a.selection_csv)
    \/ /\ a.selection_csv.exists
       /\ a.selection_csv.columns = {"style_color"}
       /\ \E i \in 1..Len(a.selection_csv.rows) :
              DashAt(Strip(a.selection_csv.rows[i].style_color)) = 0
    \/ \E c \in a.select_codes : DashAt(c) = 0

\* the arguments of the rerun driver: the calls whose selection is well formed
RerunArgs == {a \in AllArgs : ~MalformedSelection(a)}

RerunCall ==
    /\ first_run.calls < 2
    /\ \E a \in RerunArgs : (first_run.calls = 1 => a = first_run.args) /\ CallStep(a)
    /\ UNCHANGED <<first_run, sizeVars, titleVars, auxVars>>

RerunFirstPass ==
    /\ \E snap \in Snapshots :
          /\ first_run.calls = 1 => ExistingTitles(snap) = first_run.snapshot1
          /\ FirstPassStep(snap)
    /\ UNCHANGED <<first_run, sizeVars, titleVars, auxVars>>

RerunSecondPass ==
    /\ \E snap \in Snapshots :
          /\ first_run.calls = 1 => ExistingTitles(snap) = first_run.snapshot2
          /\ SecondPassStep(snap)
    /\ UNCHANGED <<first_run, sizeVars, titleVars, auxVars>>

RerunBuildVariants ==
    /\ \E file \in ColorFiles :
          /\ first_run.calls = 1 => file = first_run.color_file
          /\ VariantsStep(file)
    /\ UNCHANGED <<first_run, sizeVars, titleVars, auxVars>>

RerunReturn ==
    /\ ReturnStep
    /\ first_run' =
          IF first_run.calls = 0
          THEN [calls |-> 1, args |-> args, snapshot1 |-> snapshot1,
                snapshot2 |-> existing_titles, color_file |-> color_file,
                outcome |-> pc, Products |-> Products, Variants |-> Variants]
          ELSE [first_run EXCEPT !.calls = 2]
    /\ UNCHANGED <<sizeVars, titleVars, auxVars>>

NextRerun ==
    RerunCall \/ RerunFirstPass \/ RerunSecondPass \/ RerunBuildVariants \/ RerunReturn

SpecRerun == InitRerun /\ [][NextRerun]_vars

(***************************************************************************)
(* _normalize_size applied to one size string                              *)
(***************************************************************************)

InitSize ==
    /\ PipeInit
    /\ first_run = NoRun
    /\ size_val \in SizeInputs
    /\ item_type \in ItemTypes
    /\ size_out = Pending
    /\ TitleIdle
    /\ AuxIdle

NormalizeSize ==
    /\ size_out = Pending
    /\ size_out' = _normalize_size(size_val, item_type)
    /\ UNCHANGED <<pipeVars, first_run, size_val, item_type, titleVars, auxVars>>

NextSize == NormalizeSize

SpecSize == InitSize /\ [][NextSize]_vars

(***************************************************************************)
(* Title expansion and classification applied to one raw title             *)
(***************************************************************************)

InitTitle ==
    /\ PipeInit
    /\ first_run = NoRun
    /\ SizeIdle
    /\ title_in \in TitleInputs
    /\ title_out = [stage |-> "raw"]
    /\ AuxIdle

\* line 672: the Expanded Title column
ExpandTitle ==
    /\ title_out.stage = "raw"
    /\ title_out' =
          [stage |-> "expanded",
           expanded |-> _expand_title_with_map(title_in.raw,
                                               _load_abbr_map(title_in.abbr_file)[1],
                                               _load_abbr_map(title_in.abbr_file)[2])]
    /\ UNCHANGED <<pipeVars, first_run, sizeVars, title_in, auxVars>>

\* lines 714-756 and 801-824 for one row: gender, top-level tag, category,
\* product type and the Tags of the Products and Variants rows
Classify ==
    /\ title_out.stage = "expanded"
    /\ LET row == [style_code |-> title_in.style_code, type |-> title_in.type,
                   season |-> title_in.season, ExpandedTitle |-> title_out.expanded]
           title_rules == _load_title_category_map(NoFile)
       IN title_out' =
             [stage |-> "classified",
              expanded |-> title_out.expanded,
              gender |-> _detect_gender(title_out.expanded),
              top_tag |-> _top_level_tag(title_out.expanded, title_in.type),
              category |-> _category_from_title(title_rules, title_out.expanded,
                                                _detect_gender(title_out.expanded)),
              product_type |-> _resolve_pt(_load_product_type_map(title_in.pt_file),
                                           title_out.expanded, title_in.type),
              tags |-> _product_tags(title_rules, row),
              variant_tags |-> _variant_tags(title_rules, row)]
    /\ UNCHANGED <<pipeVars, first_run, sizeVars, title_in, auxVars>>

NextTitle == ExpandTitle \/ Classify

SpecTitle == InitTitle /\ [][NextTitle]_vars

(***************************************************************************)
(* The ordering of the exported variant table                              *)
(***************************************************************************)

InitSort ==
    /\ PipeInit
    /\ first_run = NoRun
    /\ SizeIdle
    /\ TitleIdle
    /\ \E n \in 2..MaxSortRows : sort_in \in [1..n -> SortRows]
    /\ sort_out = [sorted |-> FALSE, rows |-> <<>>]
    /\ ColorsIdle
    /\ RetryIdle

\* the rows with the index of the frame (their place in the table)
IndexedRows(rows) ==
    [i \in 1..Len(rows) |->
        [style_code |-> rows[i].style_code, Option1Value |-> rows[i].Option1Value,
         Option2Value |-> rows[i].Option2Value, index |-> i]]

\* lines 864-866: the size key and the stable sort
SortStep ==
    /\ ~sort_out.sorted
    /\ sort_out' = [sorted |-> TRUE, rows |-> SortVariants(IndexedRows(sort_in))]
    /\ UNCHANGED <<pipeVars, first_run, sizeVars, titleVars, sort_in, colorVars, retryVars>>

NextSort == SortStep

SpecSort == InitSort /\ [][NextSort]_vars

(***************************************************************************)
(* Color uniqueness per style: _normalize_colors_for_style with the AI     *)
(* suggestion disabled, one step per entry of the for loop and per test    *)
(* of the while loop                                                       *)
(***************************************************************************)

\* the longest list of raw colors of one style
MaxColors == 3

\* the values of i the model tells apart: larger ones are kept at this value
MaxTries == 5

RawColors == {<<"B","l","u","e">>, <<"B","L","U","E">>, <<"N","a","v","y"," ","B","l","u","e">>, <<>>, <<" ">>}

ColorMapFiles == {
    NoFile,
    [exists |-> TRUE, columns |-> {"raw_color", "normalized_color"},
     rows |-> <<[raw_color |-> <<"n","a","v","y"," ","b","l","u","e">>, normalized_color |-> <<"B","l","u","e"," ">>]>>]}

DigitChars == <<"0","1","2","3","4","5","6","7","8","9">>

RECURSIVE StrOfInt(_)
\* str(i) of a natural number
StrOfInt(i) ==
    IF i < 10 THEN <<DigitChars[i + 1]>>
    ELSE StrOfInt(i \div 10) \o <<DigitChars[(i % 10) + 1]>>

\* str.title(): a letter after a letter is lower-cased, any other letter upper-cased
TitleCase(s) ==
    [j \in 1..Len(s) |->
        IF j > 1 /\ UpperChar[s[j - 1]] # LowerChar[s[j - 1]]
        THEN LowerChar[s[j]] ELSE UpperChar[s[j]]]

\* the rows of the map whose raw_color.lower() equals raw_color.lower()
ColorMapMatches(rows, raw_color) ==
    SelectSeq(rows, LAMBDA r : Lower(r.raw_color) = Lower(raw_color))

\* _normalize_color
_normalize_color(raw_color, file) ==
    IF raw_color = <<>> THEN <<>>
    ELSE IF file.exists /\ {"raw_color", "normalized_color"} \subseteq file.columns
                        /\ ColorMapMatches(file.rows, raw_color) # <<>>
         THEN Strip(ColorMapMatches(file.rows, raw_color)[1].normalized_color)
    ELSE raw_color

\* final of _normalize_colors_for_style when try_ai is false: prelim[:]
FinalColors(raw_colors, file) ==
    [j \in 1..Len(raw_colors) |-> _normalize_color(raw_colors[j], file)]

InitColors ==
    /\ PipeInit
    /\ first_run = NoRun
    /\ SizeIdle
    /\ TitleIdle
    /\ SortIdle
    /\ RetryIdle
    /\ \E n \in 1..MaxColors : \E raw \in [1..n -> RawColors] : \E f \in ColorMapFiles :
          colors_in = [raw |-> raw, file |-> f]
    /\ colors = [pc |-> "for", k |-> 1, base |-> <<>>, candidate |-> <<>>, i |-> 2,
                 used |-> {}, adjusted |-> <<>>]

\* lines 154-157: the next pair of zip(final, raw_colors), or line 167 after the last
ForStep ==
    /\ colors.pc = "for"
    /\ colors' =
         IF colors.k > Len(colors_in.raw) THEN [colors EXCEPT !.pc = "returned"]
         ELSE LET norm == FinalColors(colors_in.raw, colors_in.file)[colors.k]
                  rc == colors_in.raw[colors.k]
                  candidate == IF Strip(norm) # <<>> THEN Strip(norm) ELSE TitleCase(rc)
              IN [colors EXCEPT !.pc = "while", !.candidate = candidate,
                                !.base = candidate, !.i = 2]
    /\ UNCHANGED <<pipeVars, first_run, sizeVars, titleVars, sortVars, colors_in, retryVars>>

\* lines 158-164: one test of the while condition and the body or the exit it selects
WhileStep ==
    /\ colors.pc = "while"
    /\ LET rc == colors_in.raw[colors.k]
       IN colors' =
            IF Lower(colors.candidate) \in colors.used
            THEN IF rc # <<>> /\ SplitWs(rc, <<>>) = <<>>
                 THEN [colors EXCEPT !.pc = "raised"]
                 ELSE LET hint == IF rc # <<>> THEN TitleCase(SplitWs(rc, <<>>)[1])
                                  ELSE StrOfInt(colors.i)
                      IN [colors EXCEPT
                            !.candidate = colors.base \o <<" ">> \o
                                (IF hint # <<>> THEN hint ELSE StrOfInt(colors.i)),
                            !.i = IF colors.i < MaxTries THEN colors.i + 1 ELSE colors.i]
            ELSE [colors EXCEPT !.pc = "for", !.k = colors.k + 1,
                                !.used = colors.used \cup {Lower(colors.candidate)},
                                !.adjusted = Append(colors.adjusted, colors.candidate)]
    /\ UNCHANGED <<pipeVars, first_run, sizeVars, titleVars, sortVars, colors_in, retryVars>>

NextColors == ForStep \/ WhileStep

\* the interpreter keeps running the call until it returns or raises
SpecColors == InitColors /\ [][NextColors]_vars /\ WF_vars(NextColors)

(***************************************************************************)
(* HTTP retry helpers of common/shopify_rest.py: one step per attempt,     *)
(* the server's answer chosen freely; the lengths of the sleeps are left   *)
(* out                                                                     *)
(***************************************************************************)

\* the largest max_retries of a call (the defaults are 3 and 5)
MaxRetries == 5

RetryHelpers == {"_get_with_retry", "_request_with_retry"}

\* what an attempt meets: a status code, or "neterr" when requests raises
\* before any response arrives
Answers == {"200", "429", "500", "neterr"}

InitRetry ==
    /\ PipeInit
    /\ first_run = NoRun
    /\ SizeIdle
    /\ TitleIdle
    /\ SortIdle
    /\ ColorsIdle
    /\ \E fn \in RetryHelpers : \E m \in 1..MaxRetries :
          retry = [pc |-> "loop", fn |-> fn, max_retries |-> m, attempt |-> 1,
                   answers |-> <<>>, result |-> "none"]

\* the except clause: raise on the last attempt, otherwise sleep and go on
ExceptClause(r) ==
    IF r.attempt >= r.max_retries THEN [r EXCEPT !.pc = "raised", !.result = "error"]
    ELSE [r EXCEPT !.attempt = r.attempt + 1]

\* continue: the next value of range(1, max_retries + 1); when there is none the
\* loop ends and the function returns without a return statement
Continue(r) ==
    IF r.attempt < r.max_retries THEN [r EXCEPT !.attempt = r.attempt + 1]
    ELSE [r EXCEPT !.pc = "returned", !.result = "None"]

\* lines 65-80: one pass of the loop of _get_with_retry
GetAttempt ==
    /\ retry.pc = "loop"
    /\ retry.fn = "_get_with_retry"
    /\ \E ans \in Answers :
         LET r == [retry EXCEPT !.answers = Append(retry.answers, ans)]
         IN retry' =
              IF ans = "neterr" THEN ExceptClause(r)
              ELSE IF ans = "429" /\ r.attempt < r.max_retries THEN Continue(r)
              ELSE IF ans # "200" THEN ExceptClause(r)
              ELSE [r EXCEPT !.pc = "returned", !.result = "response"]
    /\ UNCHANGED <<pipeVars, first_run, sizeVars, titleVars, sortVars, colorVars>>

\* lines 185-212: one pass of the loop of _request_with_retry
RequestAttempt ==
    /\ retry.pc = "loop"
    /\ retry.fn = "_request_with_retry"
    /\ \E ans \in Answers :
         LET r == [retry EXCEPT !.answers = Append(retry.answers, ans)]
         IN retry' =
              IF ans = "neterr" THEN ExceptClause(r)
              ELSE IF ans = "429" THEN Continue(r)
              ELSE IF ans # "200" THEN ExceptClause(r)
              ELSE [r EXCEPT !.pc = "returned", !.result = "response"]
    /\ UNCHANGED <<pipeVars, first_run, sizeVars, titleVars, sortVars, colorVars>>

NextRetry == GetAttempt \/ RequestAttempt

SpecRetry == InitRetry /\ [][NextRetry]_vars

(***************************************************************************)
(* Properties of the drafted sheets                                        *)
(***************************************************************************)

Done == pc = "done"

\* base_title of the first pass for the style of row i of prod
BaseTitleOf(i) == RowsOfStyle(prod_sc, prod[i].style_code)[1].Title

\* str(r['season']).strip() is truthy for row i of prod
HasSeason(i) == Strip(prod[i].season) # <<>>

SameBase(i, j) == BaseTitleOf(i) = BaseTitleOf(j)

\* both snapshot requests of the call returned the same titles
OneSnapshot == snapshot1 = existing_titles

\* both snapshot requests of the call returned no title
NoExisting == snapshot1 = {} /\ existing_titles = {}

\* the style is in the feed of the call, and where it comes first
InFeed(style) == \E k \in 1..Len(args.feed) : args.feed[k].style_code = style

FeedIndex(style) ==
    CHOOSE k \in 1..Len(args.feed) :
        /\ args.feed[k].style_code = style
        /\ \A m \in 1..(k - 1) : args.feed[m].style_code # style

\* the style of row i comes before the style of row j, in the feed and in the
\* style-level table alike
EncounteredFirst(i, j) ==
    /\ i < j
    /\ InFeed(prod[i].style_code) /\ InFeed(prod[j].style_code)
    /\ FeedIndex(prod[i].style_code) < FeedIndex(prod[j].style_code)

\* C1: after title deduplication, when two styles of the batch have the same
\* base title, or the base title of a style is an existing platform title, and
\* one of the colliding styles has a season, the final titles of the colliding
\* styles differ from one another, and the final title of a colliding style
\* with a season is not an existing platform title
C1_CollidingTitlesDistinct ==
    (Done /\ OneSnapshot) =>
        \A i \in 1..Len(prod) :
            ( /\ \/ \E j \in 1..Len(prod) : j # i /\ SameBase(i, j)
                 \/ BaseTitleOf(i) \in existing_titles
              /\ \E j \in 1..Len(prod) : SameBase(i, j) /\ HasSeason(j) )
            => /\ \A j \in 1..Len(prod) :
                     (j # i /\ SameBase(i, j)) => Products[j].Title # Products[i].Title
               /\ HasSeason(i) => Products[i].Title \notin existing_titles

\* C2: the final title of every style is its base title, or its base title
\* followed by one " - {season}" suffix with the season of the representative
\* group of the style; the suffix is never there twice
C2_SeasonAppendedOnce ==
    (Done /\ OneSnapshot) =>
        \A i \in 1..Len(prod) :
            \/ Products[i].Title = BaseTitleOf(i)
            \/ Products[i].Title = BaseTitleOf(i) \o <<" ","-"," ">> \o prod[i].season
            \/ Products[i].Title = BaseTitleOf(i) \o <<" ","-"," ">> \o Strip(prod[i].season)

\* C3 as stated: of two styles with the same base title, one of them with a
\* season, and no existing platform title, the first-encountered style keeps
\* the base title and the second gets base title + " - " + season
C3_FirstKeepsBase ==
    (Done /\ NoExisting) =>
        \A i, j \in 1..Len(prod) :
            (EncounteredFirst(i, j) /\ SameBase(i, j) /\ (HasSeason(i) \/ HasSeason(j)))
            => /\ Products[i].Title = BaseTitleOf(i)
               /\ \E k \in {i, j} :
                     /\ HasSeason(k)
                     /\ Products[j].Title = BaseTitleOf(j) \o <<" ","-"," ">> \o Strip(prod[k].season)

\* C3: of two styles with the same base title and no existing platform title,
\* each one that has a season gets base title + " - " + its own season,
\* whichever came first, and one without a season keeps the base title
C3_SeasonedDuplicatesSuffixed ==
    (Done /\ NoExisting) =>
        \A i, j \in 1..Len(prod) :
            (i # j /\ SameBase(i, j))
            => Products[i].Title =
                  IF HasSeason(i) THEN BaseTitleOf(i) \o <<" ","-"," ">> \o prod[i].season
                  ELSE BaseTitleOf(i)

\* the first-encountered of two styles with one base title has the season, the
\* second has none: the first carries the suffix and the second the base title
C3_FirstSuffixedReached ==
    /\ Done /\ NoExisting
    /\ \E i, j \in 1..Len(prod) :
          /\ EncounteredFirst(i, j) /\ SameBase(i, j)
          /\ HasSeason(i) /\ ~HasSeason(j)
          /\ Products[i].Title = BaseTitleOf(i) \o <<" ","-"," ","S","u","m","m","e","r"," ","2","0","2","6">>
          /\ Products[j].Title = BaseTitleOf(j)

\* C4: a second call with the same feed, selections, override tables and
\* existing-title snapshot ends as the first did and gives the same Products
\* and Variants sheets; no season is appended again
C4_RerunSameSheets ==
    (first_run.calls = 1 /\ pc \in {"done", "aborted"}) =>
        /\ pc = first_run.outcome
        /\ Products = first_run.Products
        /\ Variants = first_run.Variants

\* a second call is done whose titles carry a season suffix and whose color
\* names come from a loaded override
C4_RerunWithSuffixReached ==
    /\ first_run.calls = 1 /\ Done
    /\ color_file.exists
    /\ \E i \in 1..Len(Products) : Products[i].Title # BaseTitleOf(i)
    /\ \E k \in 1..Len(Variants) : Variants[k].Option1Value = <<"O","n","y","x">>

\* C5: the color name a call resolves for a color code depends on the built-in
\* table and on the override table given to that call alone
C5_ColorsFromThisCallOnly ==
    Done =>
        \A k \in 1..Len(Variants) :
            Variants[k].ColorByCode =
                _color_from_code(_load_color_code_map(BuiltinColorCodeMap, color_file),
                                 Variants[k].color_code)

\* the style and the color of a selected code "style-color"
StyleOfCode(c) == Upper(Strip(SubSeq(c, 1, DashAt(c) - 1)))

ColorOfCode(c) == Upper(Strip(SubSeq(c, DashAt(c) + 1, Len(c))))

\* the Variants rows of one style-color
VariantsOf(sc, cc) ==
    {k \in 1..Len(Variants) : Variants[k].style_code = sc /\ Variants[k].color_code = cc}

StylesOfVdf == {vdf[k].style_code : k \in 1..Len(vdf)}

\* C7: the Products sheet has one row for each style code of the surviving
\* and the synthesized variant rows, and no other row
C7_OneProductPerStyle ==
    Done =>
        /\ \A s \in StylesOfVdf :
              Cardinality({i \in 1..Len(Products) : Products[i].style_code = s}) = 1
        /\ \A i \in 1..Len(Products) : Products[i].style_code \in StylesOfVdf

\* a style with two colors in the feed: two style+color groups, one product
C7_TwoColorsOneProductReached ==
    /\ Done
    /\ Len(prod_sc) = 2
    /\ prod_sc[1].style_code = prod_sc[2].style_code
    /\ prod_sc[1].color_code # prod_sc[2].color_code
    /\ Len(Products) = 1

\* C8: two Variants rows of one style with different color codes never have
\* the same Option1 Value, compared without case
C8_ColorNamesUniquePerStyle ==
    Done =>
        \A a, b \in 1..Len(Variants) :
            ( /\ Variants[a].style_code = Variants[b].style_code
              /\ Variants[a].color_code # Variants[b].color_code )
            => Lower(Variants[a].Option1Value) # Lower(Variants[b].Option1Value)

\* the two feed rows of the AB1234 scenario
PoloBlackS ==
    Row(<<"A","B","1","2","3","4">>, <<"0","1","0">>, <<"T","e","n","n","i","s"," ","P","o","l","o">>, <<"S","u","m","m","e","r"," ","2","0","2","6">>, <<"S">>, <<"S","1">>, 3, 5000, <<"M"," ","D","F"," ","P","o","l","o">>, <<"B","l","a","c","k">>)

PoloWhiteM ==
    Row(<<"A","B","1","2","3","4">>, <<"1","0","0">>, <<"T","e","n","n","i","s"," ","P","o","l","o">>, <<"S","u","m","m","e","r"," ","2","0","2","6">>, <<"M">>, <<"S","2">>, 2, 5000, <<"M"," ","D","F"," ","P","o","l","o">>, <<"W","h","i","t","e">>)

\* C9: a feed of two AB1234 rows, colors 010 and 100, sizes S and M, type
\* "Tennis Polo", gives one Products row titled brand prefix plus expanded
\* title with tags starting Nike, AB1234, T-Shirt & Tops, Men's Apparel, and two
\* Variants rows: Black in size S and White in size M
C9_PoloScenario ==
    ( /\ Done /\ NoExisting
      /\ args.feed \in {<<PoloBlackS, PoloWhiteM>>, <<PoloWhiteM, PoloBlackS>>}
      /\ args.select_skus = {} /\ args.select_codes = {} /\ ~args.selection_csv.exists
      /\ COLOR_CODE_MAP = BuiltinColorCodeMap )
    => /\ Len(Products) = 1
       /\ Products[1].style_code = <<"A","B","1","2","3","4">>
       /\ Products[1].Title = <<"N","i","k","e"," ">> \o prod[1].ExpandedTitle
       /\ StartsWith(Products[1].Tags, <<"N","i","k","e",","," ","A","B","1","2","3","4",","," ","T","-","S","h","i","r","t"," ","&"," ","T","o","p","s",","," ","M","e","n","'","s"," ","A","p","p","a","r","e","l">>)
       /\ Len(Variants) = 2
       /\ \E a, b \in 1..2 :
             /\ Variants[a].Option1Value = <<"B","l","a","c","k">> /\ Variants[a].Option2Value = <<"S">>
             /\ Variants[b].Option1Value = <<"W","h","i","t","e">> /\ Variants[b].Option2Value = <<"M">>

\* C10: _normalize_size gives "8.5" for "W 8.5" and for "M 8.5" when the item
\* type is footwear, and "W 8.5" for "W 8.5" when it is apparel
C10_ShoePrefixOnlyForFootwear ==
    size_out # Pending =>
        /\ (size_val \in {<<"W"," ","8",".","5">>, <<"M"," ","8",".","5">>} /\ IsFootwearType(item_type))
           => size_out = <<"8",".","5">>
        /\ (size_val = <<"W"," ","8",".","5">> /\ ~IsFootwearType(item_type))
           => size_out = <<"W"," ","8",".","5">>

\* the size string is a form of the size name: the name in some letter case,
\* with spaces or hyphens between its words
IsSizeNameForm(s, name) == Replace(Upper(s), <<"-">>, <<" ">>) = name

\* C11: _normalize_size maps every long-form or symbolic synonym of a token of
\* the canonical apparel size vocabulary, in any letter case, to that token
C11_SynonymsToCanonicalToken ==
    size_out # Pending =>
        \A p \in SizeSynonyms :
            IsSizeNameForm(size_val, p[1]) =>
                /\ size_out = p[2]
                /\ p[2] \in {<<"2","X","S">>, <<"X","S">>, <<"S">>, <<"M">>, <<"L">>, <<"X","L">>, <<"2","X","L">>, <<"3","X","L">>, <<"4","X","L">>}

\* "eXtra-Large" has been normalized to XL
C11_MixedCaseHyphenReached ==
    size_val = <<"e","X","t","r","a","-","L","a","r","g","e">> /\ item_type = <<"T","e","n","n","i","s"," ","P","o","l","o">> /\ size_out = <<"X","L">>

\* C12: _normalize_size returns a size string it does not recognize unchanged:
\* for apparel one that is no form of a size name and has no leading
\* qualifier, for footwear one that is no gender letter followed by a number
C12_UnrecognizedUnchanged ==
    (size_out # Pending /\ Strip(size_val) = size_val) =>
        LET tokens == SelectNonEmpty(ReSplitSpaceSlash(Upper(size_val)))
            apparelKnown ==
                \/ \E p \in SizeSynonyms : IsSizeNameForm(size_val, p[1])
                \/ tokens # <<>> /\ tokens[1] \in SizeQualifiers
        IN /\ (~IsFootwearType(item_type) /\ ~apparelKnown) => size_out = size_val
           /\ (IsFootwearType(item_type) /\ ~ShoeSizeMatches(size_val))
              => size_out = size_val

Expanded == title_out.stage # "raw"

Classified == title_out.stage = "classified"

\* the words of a title: the non-empty pieces between whitespace and slashes
TitleTokens(raw) == SelectNonEmpty(ReSplitSpaceSlash(raw))

\* C13: the expanded title is the tokens of the raw title, in order and joined
\* by single spaces, the first token replaced by its positional entry when it
\* has one, every other token (and the first without a positional entry)
\* replaced by its general entry when it has one, the rest unchanged
C13_ExpansionTokenByToken ==
    Expanded =>
        LET tokens == TitleTokens(title_in.raw)
            start_map == _load_abbr_map(title_in.abbr_file)[1]
            any_map == _load_abbr_map(title_in.abbr_file)[2]
            entry(i) ==
                IF i = 1 /\ HasKey(start_map, Upper(tokens[i]))
                THEN Lookup(start_map, Upper(tokens[i]))
                ELSE IF HasKey(any_map, Upper(tokens[i]))
                     THEN Lookup(any_map, Upper(tokens[i]))
                     ELSE tokens[i]
        IN title_out.expanded = JoinWith([i \in 1..Len(tokens) |-> entry(i)], <<" ">>)

\* C14: the product type is the type of the keyword of the keyword-to-type
\* table (override file or built-in defaults) that occurs in the expanded title
\* with the highest priority, ties going to the lexically smaller keyword; with
\* no such keyword it is the type of the secondary table, then the raw vendor
\* type, then null
C14_HighestPriorityKeyword ==
    Classified =>
        LET table == IF title_in.pt_file.exists THEN ProductTypeRows(title_in.pt_file.rows)
                     ELSE ProductTypeDefaults
            t == Lower(title_out.expanded)
            occurring == {i \in 1..Len(table) : Contains(t, table[i][1])}
            best == CHOOSE i \in occurring :
                        \A j \in occurring \ {i} : RuleBefore(table[i], table[j])
        IN title_out.product_type =
              IF occurring # {} THEN table[best][2]
              ELSE IF _map_product_type(title_out.expanded) # None
                   THEN _map_product_type(title_out.expanded)
                   ELSE IF title_in.type # <<>> THEN title_in.type ELSE None

\* C15: the Tags of a Products row are the brand, the upper-cased style code,
\* then the top-level tag alone for footwear and otherwise the category tag (or
\* "Needs Category" when the title has no category keyword) followed by the
\* top-level tag, then the season when it is non-empty, in this order
C15_ProductTagOrder ==
    Classified =>
        LET footwear == Contains(title_out.top_tag, <<"F","o","o","t","w","e","a","r">>)
            category == IF title_out.category # None THEN title_out.category
                        ELSE <<"N","e","e","d","s"," ","C","a","t","e","g","o","r","y">>
        IN title_out.tags =
              JoinWith(<<<<"N","i","k","e">>, Upper(title_in.style_code)>>
                       \o (IF footwear THEN <<>> ELSE <<category>>)
                       \o <<title_out.top_tag>>
                       \o (IF title_in.season # <<>> THEN <<title_in.season>> ELSE <<>>),
                       <<","," ">>)

C15_SentinelAndSeasonReached ==
    /\ Classified
    /\ title_in.raw = <<"N","K"," ","C","o","u","r","t"," ","T","e","e">>
    /\ title_out.tags = <<"N","i","k","e",","," ","A","B","1","2","3","4",","," ","N","e","e","d","s"," ","C","a","t","e","g","o","r","y",","," ","A","c","c","e","s","s","o","r","i","e","s",","," ","S","u","m","m","e","r"," ","2","0","2","6">>

RECURSIVE SplitTags(_)
\* the tags of a Tags string: its pieces between ", "
SplitTags(s) ==
    IF ~Contains(s, <<","," ">>) THEN <<s>>
    ELSE LET k == CHOOSE i \in 1..(Len(s) - 1) :
                      /\ SubSeq(s, i, i + 1) = <<","," ">>
                      /\ \A j \in 1..(i - 1) : SubSeq(s, j, j + 1) # <<","," ">>
         IN <<SubSeq(s, 1, k - 1)>> \o SplitTags(SubSeq(s, k + 2, Len(s)))

TagCount(s, tag) == Cardinality({i \in 1..Len(SplitTags(s)) : SplitTags(s)[i] = tag})

\* C16: a non-footwear style whose category tag is Headwear or Socks has the
\* tag "Accessories" exactly once in the Tags of its Products row and exactly
\* once in the Tags of its Variants rows
C16_AccessoriesOnceForHeadwearSocks ==
    ( /\ Classified
      /\ ~Contains(title_out.top_tag, <<"F","o","o","t","w","e","a","r">>)
      /\ title_out.category \in {<<"H","e","a","d","w","e","a","r">>, <<"S","o","c","k","s">>} )
    => /\ TagCount(title_out.tags, <<"A","c","c","e","s","s","o","r","i","e","s">>) = 1
       /\ TagCount(title_out.variant_tags, <<"A","c","c","e","s","s","o","r","i","e","s">>) = 1

\* C17: the top-level tag is "<Gender>'s Footwear" when the style is footwear
\* and "<Gender>'s Apparel" otherwise, for the genders men, women, boys and
\* girls, and it is "Accessories" whenever the gender is unknown
C17_TopLevelTagByGender ==
    Classified =>
        LET footwear == \/ ContainsAny(Lower(title_out.expanded),
                                       <<<<"s","h","o","e">>, <<"s","n","e","a","k","e","r">>, <<"f","o","o","t","w","e","a","r">>>>)
                        \/ Contains(Lower(title_in.type), <<"s","h","o","e">>)
            kind == IF footwear THEN <<"'","s"," ","F","o","o","t","w","e","a","r">> ELSE <<"'","s"," ","A","p","p","a","r","e","l">>
        IN /\ title_out.gender = "men" => title_out.top_tag = <<"M","e","n">> \o kind
           /\ title_out.gender = "women" => title_out.top_tag = <<"W","o","m","e","n">> \o kind
           /\ title_out.gender = "boys" => title_out.top_tag = <<"B","o","y">> \o kind
           /\ title_out.gender = "girls" => title_out.top_tag = <<"G","i","r","l">> \o kind
           /\ title_out.gender = "unknown" => title_out.top_tag = <<"A","c","c","e","s","s","o","r","i","e","s">>

\* the gender and age markers a title starts with, lower-cased, each with the
\* gender segment it names
GenderMarkers == {
    <<<<"w","o","m","e","n","'","s">>, "women">>, <<<<"w","o","m","e","n","s">>, "women">>, <<<<"w","o","m","e","n">>, "women">>,
    <<<<"m","e","n","'","s">>, "men">>, <<<<"m","e","n","s">>, "men">>, <<<<"m","e","n">>, "men">>,
    <<<<"g","i","r","l","s">>, "girls">>, <<<<"g","i","r","l","'","s">>, "girls">>, <<<<"b","o","y","s">>, "boys">>, <<<<"b","o","y","'","s">>, "boys">>,
    <<<<"y","o","u","t","h">>, "kids">>, <<<<"k","i","d","s">>, "kids">>, <<<<"k","i","d","'","s">>, "kids">> }

\* C18: when the first token of the expanded title is a gender or age marker,
\* the gender segment is the one the marker names, whatever else the title
\* holds and whatever the item type is
C18_FirstTokenDecidesGender ==
    (Classified /\ TitleTokens(title_out.expanded) # <<>>) =>
        \A m \in GenderMarkers :
            Lower(TitleTokens(title_out.expanded)[1]) = m[1] => title_out.gender = m[2]

\* C19: a call whose snapshot request raises is not aborted by it, and its
\* titles are the ones the two passes give with an empty set of existing titles
\* in place of the failed request: with both requests failed, only rows whose
\* base title another row of the batch has carry a season suffix
C19_FailedSnapshotAsEmpty ==
    /\ pc = "aborted" => snapshot_failed = {}
    /\ Done =>
          LET e1 == IF 1 \in snapshot_failed THEN {} ELSE snapshot1
              e2 == IF 2 \in snapshot_failed THEN {} ELSE existing_titles
              first == BuildProducts(prod_sc, StyleToTitle(prod_sc, e1),
                                     _load_product_type_map(NoFile),
                                     _load_title_category_map(NoFile))
          IN /\ Products = ProductsSheet(SecondPassProducts(first, e2))
             /\ snapshot_failed = {1, 2} =>
                   \A i \in 1..Len(Products) :
                       Products[i].Title # BaseTitleOf(i) =>
                           \E j \in 1..Len(Products) : j # i /\ SameBase(i, j)

C19_BothFailedSuffixReached ==
    /\ Done
    /\ snapshot_failed = {1, 2}
    /\ \E i \in 1..Len(Products) : Products[i].Title # BaseTitleOf(i)
    /\ \E i \in 1..Len(Products) : Products[i].Title = <<"N","i","k","e"," ","M","e","n","'","s"," ","D","r","i","-","F","I","T"," ","P","o","l","o">>

\* C20: a call with a malformed selection aborts: no call with one runs to
\* completion
C20_MalformedSelectionAborts == Done => ~MalformedSelection(args)

\* the first row of the style among the variant rows of the call, in input order
FirstRowOfStyle(style) == RowsOfStyle(vdf, style)[1]

\* C21: the base title and the season of every product are those of the
\* style-color group of the first row of its style in input order
C21_RepresentativeIsFirstInFeed ==
    Done =>
        \A i \in 1..Len(prod) :
            LET first == FirstRowOfStyle(prod[i].style_code)
                abbr == _load_abbr_map(NoFile)
            IN /\ prod[i].season = first.season
               /\ BaseTitleOf(i) =
                     _base_title(_expand_title_with_map(first.nike_title_raw, abbr[1], abbr[2]))

\* the canonical apparel tokens and the numeric sizes of the model, each in
\* ascending order
TokenOrder == <<<<"2","X","S">>, <<"X","S">>, <<"S">>, <<"M">>, <<"L">>, <<"X","L">>, <<"2","X","L">>, <<"3","X","L">>, <<"4","X","L">>>>

NumericOrder == <<<<"7">>, <<"9",".","5">>, <<"1","0">>>>

PlaceIn(order, s) == CHOOSE k \in 1..Len(order) : order[k] = s

IsIn(order, s) == \E k \in 1..Len(order) : order[k] = s

VariantKey(sc, cc, sku, size) == <<sc, cc, sku, size>>

C24_QualifiedSynonymToToken ==
    (size_out # Pending /\ ~IsFootwearType(item_type)) =>
        \A q \in DemographicQualifiers, p \in SizeSynonyms :
            size_val = q \o <<" ">> \o p[1] => size_out = p[2]

\* C25: for an apparel item type every canonical size token normalizes to
\* itself
C25_CanonicalSizesFixed ==
    (size_out # Pending /\ ~IsFootwearType(item_type) /\ size_val \in CanonicalSizes)
        => size_out = size_val

\* the synthesized rows of the Variants sheet: the rows without a SKU
Placeholders == {k \in 1..Len(Variants) : Variants[k].VariantSKU = <<>>}

\* the style-color of a Variants row as a selection code
CodeOfVariant(k) == Lower(Variants[k].style_code \o <<"-">> \o Variants[k].color_code)

FeedHas(c) == \E k \in 1..Len(args.feed) : CodeOfRow(args.feed[k]) = c

\* C26: a placeholder row exists for a style-color exactly when the
\* style-color was requested and no row of the feed has it
C26_PlaceholderIffRequestedAndAbsent ==
    Done =>
        /\ \A k \in Placeholders :
              CodeOfVariant(k) \in SelectedCodes(args) /\ ~FeedHas(CodeOfVariant(k))
        /\ \A c \in SelectedCodes(args) :
              (DashAt(c) > 0 /\ ~FeedHas(c)) => \E k \in Placeholders : CodeOfVariant(k) = c

\* the Products sheet the title steps of the call give when every request for
\* the platform's titles is answered with the set E
SheetWithOneSnapshot(E) ==
    ProductsSheet(SecondPassProducts(
        BuildProducts(prod_sc, StyleToTitle(prod_sc, E), _load_product_type_map(NoFile),
                      _load_title_category_map(NoFile)), E))

\* C27: the final titles of a call are those its batch gets from one set of
\* existing titles, one of the sets the call was given, also when the answers
\* to its requests differ
C27_TitlesFromOneSnapshot ==
    Done =>
        \E E \in {snapshot1, existing_titles} :
            \A i \in 1..Len(Products) : Products[i].Title = SheetWithOneSnapshot(E)[i].Title

EndsWith(s, suffix) ==
    Len(suffix) <= Len(s) /\ SubSeq(s, Len(s) - Len(suffix) + 1, Len(s)) = suffix

\* C28: the Tags of every Variants row end with the season of the row's style
\* when that season is non-empty
C28_VariantTagsEndWithSeason ==
    Done =>
        \A k \in 1..Len(Variants), i \in 1..Len(Products) :
            (Products[i].style_code = Variants[k].style_code
               /\ Strip(Products[i].season) # <<>>)
            => EndsWith(Variants[k].Tags, Strip(Products[i].season))


(***************************************************************************)
(* Color uniqueness and HTTP retries                                       *)
(***************************************************************************)

\* C29: _normalize_colors_for_style, with the AI suggestion off, terminates for
\* every finite list of raw color names of one style and returns a list as long
\* as its input, however many variants share a raw color name.
C29_TerminatesSameLength ==
    <>(colors.pc = "returned" /\ Len(colors.adjusted) = Len(colors_in.raw))

\* C30: each retry helper makes at most max_retries attempts and ends by returning
\* the server's response or by raising; it never returns without a response, also
\* when every attempt is answered with status 429.
C30_ReturnsResponseOrRaises ==
    retry.pc # "idle" =>
        /\ Len(retry.answers) <= retry.max_retries
        /\ retry.pc = "returned" => retry.result = "response"

====
